---- MODULE Spec2Model ----
(***************************************************************************)
(* A model of the tokenizer operators of                                   *)
(* user_ie_extensions/sentence_piece/sentence_piece.cpp: each operator's   *)
(* evaluate is one action over the tensors it reads and writes.  Tensors   *)
(* are sequences (index k of the code is index k+1 here).  Each operator   *)
(* has its own specification: Init draws the input tensors of one call     *)
(* from bounded sets and the action is the call.                           *)
(***************************************************************************)
EXTENDS Integers, Sequences, FiniteSets, TLC

VARIABLES op, pc, inputs, outputs

vars == <<op, pc, inputs, outputs>>

\* ------------------------------------------------------------ bounds
\* rows of a ragged tensor (its logical batch)
MaxRows == 2
\* strings of a string triple (words of a ragged string tensor)
MaxWords == 2
\* bytes of a chars buffer
MaxChars == 2
\* elements of the flat buffer of a ragged tensor
MaxElems == 3
\* the dense width asked of RaggedToDense
MaxDim == 2
\* ragged inputs of one CombineSegments call
MaxSegments == 2
\* elements of all ragged inputs of one CombineSegments call together
MaxSegElems == 2
MaxTokens == 2

\* ------------------------------------------------------------ helpers
Min(a, b) == IF a < b THEN a ELSE b

Max(a, b) == IF a < b THEN b ELSE a

SeqsUpTo(S, n) == UNION {[1..k -> S] : k \in 0..n}

\* s[from .. to) of the code, 0-based and half open
Slice(s, from, to) == [k \in 1..(to - from) |-> s[from + k]]

RECURSIVE Flatten(_)
Flatten(ss) == IF ss = <<>> THEN <<>> ELSE Head(ss) \o Flatten(Tail(ss))

RECURSIVE SumSeq(_)
SumSeq(s) == IF s = <<>> THEN 0 ELSE Head(s) + SumSeq(Tail(s))

\* (begin, end) pairs with 0 <= begin <= end <= n
Ranges(n) == {r \in (0..n) \X (0..n) : r[1] <= r[2]}

\* the begins and the ends of a sequence of (begin, end) pairs
Firsts(rs) == [i \in 1..Len(rs) |-> rs[i][1]]

Seconds(rs) == [i \in 1..Len(rs) |-> rs[i][2]]

\* what a read of memory the call never wrote may give
Garbage == {0, 1, 9}

\* ------------------------------------------------------------ byte table
\* create_bytes_to_chars_map: entry b+1 is the output of byte b
create_bytes_to_chars_map ==
    <<
       <<196, 128>>, <<196, 129>>, <<196, 130>>, <<196, 131>>, <<196, 132>>, <<196, 133>>, <<196, 134>>, <<196, 135>>,
       <<196, 136>>, <<196, 137>>, <<196, 138>>, <<196, 139>>, <<196, 140>>, <<196, 141>>, <<196, 142>>, <<196, 143>>,
       <<196, 144>>, <<196, 145>>, <<196, 146>>, <<196, 147>>, <<196, 148>>, <<196, 149>>, <<196, 150>>, <<196, 151>>,
       <<196, 152>>, <<196, 153>>, <<196, 154>>, <<196, 155>>, <<196, 156>>, <<196, 157>>, <<196, 158>>, <<196, 159>>,
       <<196, 160>>, <<33>>, <<34>>, <<35>>, <<36>>, <<37>>, <<38>>, <<39>>,
       <<40>>, <<41>>, <<42>>, <<43>>, <<44>>, <<45>>, <<46>>, <<47>>,
       <<48>>, <<49>>, <<50>>, <<51>>, <<52>>, <<53>>, <<54>>, <<55>>,
       <<56>>, <<57>>, <<58>>, <<59>>, <<60>>, <<61>>, <<62>>, <<63>>,
       <<64>>, <<65>>, <<66>>, <<67>>, <<68>>, <<69>>, <<70>>, <<71>>,
       <<72>>, <<73>>, <<74>>, <<75>>, <<76>>, <<77>>, <<78>>, <<79>>,
       <<80>>, <<81>>, <<82>>, <<83>>, <<84>>, <<85>>, <<86>>, <<87>>,
       <<88>>, <<89>>, <<90>>, <<91>>, <<92>>, <<93>>, <<94>>, <<95>>,
       <<96>>, <<97>>, <<98>>, <<99>>, <<100>>, <<101>>, <<102>>, <<103>>,
       <<104>>, <<105>>, <<106>>, <<107>>, <<108>>, <<109>>, <<110>>, <<111>>,
       <<112>>, <<113>>, <<114>>, <<115>>, <<116>>, <<117>>, <<118>>, <<119>>,
       <<120>>, <<121>>, <<122>>, <<123>>, <<124>>, <<125>>, <<126>>, <<196, 161>>,
       <<196, 162>>, <<196, 163>>, <<196, 164>>, <<196, 165>>, <<196, 166>>, <<196, 167>>, <<196, 168>>, <<196, 169>>,
       <<196, 170>>, <<196, 171>>, <<196, 172>>, <<196, 173>>, <<196, 174>>, <<196, 175>>, <<196, 176>>, <<196, 177>>,
       <<196, 178>>, <<196, 179>>, <<196, 180>>, <<196, 181>>, <<196, 182>>, <<196, 183>>, <<196, 184>>, <<196, 185>>,
       <<196, 186>>, <<196, 187>>, <<196, 188>>, <<196, 189>>, <<196, 190>>, <<196, 191>>, <<197, 128>>, <<197, 129>>,
       <<197, 130>>, <<194, 161>>, <<194, 162>>, <<194, 163>>, <<194, 164>>, <<194, 165>>, <<194, 166>>, <<194, 167>>,
       <<194, 168>>, <<194, 169>>, <<194, 170>>, <<194, 171>>, <<194, 172>>, <<197, 131>>, <<194, 174>>, <<194, 175>>,
       <<194, 176>>, <<194, 177>>, <<194, 178>>, <<194, 179>>, <<194, 180>>, <<194, 181>>, <<194, 182>>, <<194, 183>>,
       <<194, 184>>, <<194, 185>>, <<194, 186>>, <<194, 187>>, <<194, 188>>, <<194, 189>>, <<194, 190>>, <<194, 191>>,
       <<195, 128>>, <<195, 129>>, <<195, 130>>, <<195, 131>>, <<195, 132>>, <<195, 133>>, <<195, 134>>, <<195, 135>>,
       <<195, 136>>, <<195, 137>>, <<195, 138>>, <<195, 139>>, <<195, 140>>, <<195, 141>>, <<195, 142>>, <<195, 143>>,
       <<195, 144>>, <<195, 145>>, <<195, 146>>, <<195, 147>>, <<195, 148>>, <<195, 149>>, <<195, 150>>, <<195, 151>>,
       <<195, 152>>, <<195, 153>>, <<195, 154>>, <<195, 155>>, <<195, 156>>, <<195, 157>>, <<195, 158>>, <<195, 159>>,
       <<195, 160>>, <<195, 161>>, <<195, 162>>, <<195, 163>>, <<195, 164>>, <<195, 165>>, <<195, 166>>, <<195, 167>>,
       <<195, 168>>, <<195, 169>>, <<195, 170>>, <<195, 171>>, <<195, 172>>, <<195, 173>>, <<195, 174>>, <<195, 175>>,
       <<195, 176>>, <<195, 177>>, <<195, 178>>, <<195, 179>>, <<195, 180>>, <<195, 181>>, <<195, 182>>, <<195, 183>>,
       <<195, 184>>, <<195, 185>>, <<195, 186>>, <<195, 187>>, <<195, 188>>, <<195, 189>>, <<195, 190>>, <<195, 191>>
    >>

\* ------------------------------------------------------------ RaggedToDense
\* values of the element buffer, and the padding value
ElemVals == {7, 8}

DefaultVals == {0}

\* std::min(size_t(ends[i] - begins[i]), target_dim): a negative difference
\* wraps to a size_t above every target_dim
RaggedToDenseLenNoTruncation(begin, end, target_dim) == end - begin

RaggedToDenseLen(begin, end, target_dim) ==
    IF end - begin < 0 THEN target_dim ELSE Min(end - begin, target_dim)

\* one iteration of the row loop: the bytes appended to out_elems and out_mask
RaggedToDenseRow(in, i) ==
    LET len == RaggedToDenseLen(in.begins[i], in.ends[i], in.target_dim)
        pad == IF len < in.target_dim THEN in.target_dim - len ELSE 0
    IN  [elems |-> Slice(in.elems, in.begins[i], in.begins[i] + len)
                     \o [k \in 1..pad |-> in.default_value],
         mask  |-> [k \in 1..len |-> 1]
                     \o (IF len < in.target_dim
                         THEN [k \in 1..(in.target_dim - len) |-> 0] ELSE <<>>)]

RECURSIVE RaggedToDenseLoop(_, _, _)
RaggedToDenseLoop(in, i, acc) ==
    IF i > Len(in.begins) THEN acc
    ELSE LET row == RaggedToDenseRow(in, i)
         IN  RaggedToDenseLoop(in, i + 1,
                 [elems |-> acc.elems \o row.elems, mask |-> acc.mask \o row.mask])

\* the inputs of one call: a valid ragged tensor, target_dim and default_value
InitRaggedToDense ==
    /\ op = "RaggedToDense"
    /\ pc = "start"
    /\ \E e \in SeqsUpTo(ElemVals, MaxElems) :
         \E rows \in SeqsUpTo(Ranges(Len(e)), MaxRows) :
           \E t \in 0..MaxDim, d \in DefaultVals :
             inputs = [begins |-> Firsts(rows), ends |-> Seconds(rows), elems |-> e,
                       target_dim |-> t, default_value |-> d]
    /\ outputs = [dense |-> <<>>, mask |-> <<>>]

\* RaggedToDense::evaluate; the output shape is the input shape ++ [target_dim]
\* (validate_and_infer_types), and the two closing assertions compare the
\* write pointers with it
RaggedToDenseEvaluate ==
    /\ op = "RaggedToDense"
    /\ pc = "start"
    /\ LET r == RaggedToDenseLoop(inputs, 1, [elems |-> <<>>, mask |-> <<>>])
           size == Len(inputs.begins) * inputs.target_dim
       IN  /\ outputs' = [dense |-> r.elems, mask |-> r.mask]
           /\ pc' = IF Len(r.elems) = size /\ Len(r.mask) = size
                    THEN "done" ELSE "failed"
    /\ UNCHANGED <<op, inputs>>

SpecRaggedToDense == InitRaggedToDense /\ [][RaggedToDenseEvaluate]_vars

\* C3: after RaggedToDense::evaluate on a valid ragged tensor the call has not
\* failed, and for every row i and position p < target_dim, with
\* len = min(ends[i] - begins[i], target_dim), the dense output holds
\* elems[begins[i] + p] under mask 1 when p < len and default_value under
\* mask 0 otherwise: a longer row is cut to target_dim without an error.
C3_RaggedToDenseFillsAndPads ==
    (op = "RaggedToDense" /\ pc # "start") =>
        /\ pc = "done"
        /\ \A i \in 1..Len(inputs.begins), p \in 0..(inputs.target_dim - 1) :
             LET len == Min(inputs.ends[i] - inputs.begins[i], inputs.target_dim)
                 at  == (i - 1) * inputs.target_dim + p + 1
             IN  IF p < len
                 THEN /\ outputs.dense[at] = inputs.elems[inputs.begins[i] + p + 1]
                      /\ outputs.mask[at] = 1
                 ELSE /\ outputs.dense[at] = inputs.default_value
                      /\ outputs.mask[at] = 0

\* a finished call with a row longer than target_dim and a row shorter than it
C3_Witness ==
    /\ op = "RaggedToDense"
    /\ pc = "done"
    /\ inputs.target_dim > 0
    /\ \E i \in 1..Len(inputs.begins) :
         inputs.ends[i] - inputs.begins[i] > inputs.target_dim
    /\ \E i \in 1..Len(inputs.begins) :
         inputs.ends[i] - inputs.begins[i] < inputs.target_dim

\* ------------------------------------------------------------ CombineSegments
\* The code never looks into an element or a segment id, so element k of
\* input r and the id of input r carry their place as their value.
SegmentElems(r, n) == [k \in 1..n |-> 100 * r + k]

SegmentIds(n) == [r \in 1..n |-> 10 * r]

\* one ragged input: rank is the rank validate_and_infer_types saw (0 for a
\* broadcast scalar, which reaches evaluate as a tensor of one element, 1 for
\* an input of the common shape [n])
SegmentInputs(r, n, len) ==
    {[rank |-> 0, begins |-> <<rg[1]>>, ends |-> <<rg[2]>>,
      elems |-> SegmentElems(r, len)] : rg \in Ranges(len)}
    \cup
    {[rank |-> 1, begins |-> Firsts(rows), ends |-> Seconds(rows),
      elems |-> SegmentElems(r, len)] : rows \in [1..n -> Ranges(len)]}

CombineSegmentsNelems(in, j) == Len(in.ragged[j].begins)

RECURSIVE CombineSegmentsMaxNelems(_, _)
CombineSegmentsMaxNelems(in, j) ==
    IF j = 0 THEN 0
    ELSE Max(CombineSegmentsMaxNelems(in, j - 1), CombineSegmentsNelems(in, j))

\* the size of Shape ps: the shape of the last input of rank > 0, and the
\* empty Shape (of size 1) when there is none
RECURSIVE CombineSegmentsPsSize(_, _)
CombineSegmentsPsSize(in, j) ==
    IF j = 0 THEN 1
    ELSE IF in.ragged[j].rank > 0 THEN CombineSegmentsNelems(in, j)
    ELSE CombineSegmentsPsSize(in, j - 1)

RECURSIVE CombineSegmentsFlatOutSize(_, _, _)
CombineSegmentsFlatOutSize(in, j, max_nelems) ==
    IF j = 0 THEN 0
    ELSE CombineSegmentsFlatOutSize(in, j - 1, max_nelems)
         + (IF CombineSegmentsNelems(in, j) = 1
            THEN max_nelems * Len(in.ragged[j].elems)
            ELSE Len(in.ragged[j].elems))

\* the row of input j that output row i copies: row 0 of an input of one row
CombineSegmentsRow(in, i, j) ==
    IF CombineSegmentsNelems(in, j) = 1 THEN 1 ELSE i

\* the inner loop body: what input j adds to output row i
CombineSegmentsPieceFirstId(in, i, j) ==
    LET row   == CombineSegmentsRow(in, i, j)
        begin == in.ragged[j].begins[row]
        len   == in.ragged[j].ends[row] - begin
    IN  [elems |-> Slice(in.ragged[j].elems, begin, begin + len),
         ids   |-> [k \in 1..len |-> in.ids[1]]]

CombineSegmentsPiece(in, i, j) ==
    LET row   == CombineSegmentsRow(in, i, j)
        begin == in.ragged[j].begins[row]
        len   == in.ragged[j].ends[row] - begin
    IN  [elems |-> Slice(in.ragged[j].elems, begin, begin + len),
         ids   |-> [k \in 1..len |-> in.ids[j]]]

RECURSIVE CombineSegmentsInner(_, _, _, _)
CombineSegmentsInner(in, i, j, acc) ==
    IF j > Len(in.ragged) THEN acc
    ELSE LET piece == CombineSegmentsPiece(in, i, j)
         IN  CombineSegmentsInner(in, i, j + 1,
                 [acc EXCEPT !.elems = @ \o piece.elems, !.ids = @ \o piece.ids])

\* the row indices written around the inner loop: out_offset before it into
\* both begins, out_offset after it into both ends
CombineSegmentsRowIndicesIdsRestart(filled, out_offset) ==
    [filled EXCEPT !.elem_begins = @ \o <<out_offset>>,
                   !.id_begins   = @ \o <<0>>,
                   !.elem_ends   = @ \o <<Len(filled.elems)>>,
                   !.id_ends     = @ \o <<Len(filled.elems) - out_offset>>]

CombineSegmentsRowIndices(filled, out_offset) ==
    [filled EXCEPT !.elem_begins = @ \o <<out_offset>>,
                   !.id_begins   = @ \o <<out_offset>>,
                   !.elem_ends   = @ \o <<Len(filled.elems)>>,
                   !.id_ends     = @ \o <<Len(filled.elems)>>]

RECURSIVE CombineSegmentsOuter(_, _, _, _)
CombineSegmentsOuter(in, i, max_nelems, acc) ==
    IF i > max_nelems THEN acc
    ELSE LET out_offset == Len(acc.elems)
             filled == CombineSegmentsInner(in, i, 1, acc)
         IN  CombineSegmentsOuter(in, i + 1, max_nelems,
                 CombineSegmentsRowIndices(filled, out_offset))

CombineSegmentsEmpty ==
    [elem_begins |-> <<>>, elem_ends |-> <<>>, elems |-> <<>>,
     id_begins |-> <<>>, id_ends |-> <<>>, ids |-> <<>>]

\* inputs r..R of a call whose common shape is [n], with at most budget
\* elements between them
RECURSIVE CombineSegmentsPick(_, _, _, _, _)
CombineSegmentsPick(r, R, n, budget, acc) ==
    IF r > R THEN inputs = [ragged |-> acc, ids |-> SegmentIds(R)]
    ELSE \E len \in 0..budget :
           \E x \in SegmentInputs(r, n, len) :
             CombineSegmentsPick(r + 1, R, n, budget - len, Append(acc, x))

InitCombineSegments ==
    /\ op = "CombineSegments"
    /\ pc = "start"
    /\ \E R \in 1..MaxSegments, n \in 0..MaxRows :
         CombineSegmentsPick(1, R, n, MaxSegElems, <<>>)
    /\ outputs = CombineSegmentsEmpty

\* CombineSegments::evaluate.  The row count is checked against ps before the
\* copy loop.  out_offset <= flat_out_size is checked only after the loop has
\* written: a copy past the allocated flat_out_size elements is a write
\* outside the tensor, after which the call either dies or reaches the
\* assertion and throws.
CombineSegmentsEvaluate ==
    /\ op = "CombineSegments"
    /\ pc = "start"
    /\ LET max_nelems    == CombineSegmentsMaxNelems(inputs, Len(inputs.ragged))
           flat_out_size == CombineSegmentsFlatOutSize(inputs, Len(inputs.ragged), max_nelems)
           r == CombineSegmentsOuter(inputs, 1, max_nelems, CombineSegmentsEmpty)
       IN  IF max_nelems # CombineSegmentsPsSize(inputs, Len(inputs.ragged))
           THEN pc' = "failed" /\ outputs' = outputs
           ELSE IF Len(r.elems) > flat_out_size
           THEN pc' \in {"failed", "crashed"} /\ outputs' = outputs
           ELSE pc' = "done" /\ outputs' = r
    /\ UNCHANGED <<op, inputs>>

SpecCombineSegments == InitCombineSegments /\ [][CombineSegmentsEvaluate]_vars

\* what the claim expects of input r in output row i: its row i, or its only
\* row when its shape is [1]
C4_Row(r, i) == IF Len(inputs.ragged[r].begins) = 1 THEN 1 ELSE i

C4_Elems(r, i) ==
    Slice(inputs.ragged[r].elems, inputs.ragged[r].begins[C4_Row(r, i)],
          inputs.ragged[r].ends[C4_Row(r, i)])

\* C4: when CombineSegments::evaluate returns, every output row i of the
\* first output is the concatenation over the inputs r, in input order, of the
\* elements of row i of input r (of its only row for an input of shape [1]),
\* and row i of the second output holds segment_ids[r] once for each of them,
\* in the same order.
C4_CombineSegmentsConcatenates ==
    (op = "CombineSegments" /\ pc = "done") =>
        /\ Len(outputs.elem_ends) = Len(outputs.elem_begins)
        /\ Len(outputs.id_begins) = Len(outputs.elem_begins)
        /\ Len(outputs.id_ends) = Len(outputs.elem_begins)
        /\ \A r \in 1..Len(inputs.ragged) :
             Len(inputs.ragged[r].begins) \in {1, Len(outputs.elem_begins)}
        /\ \A i \in 1..Len(outputs.elem_begins) :
             /\ Slice(outputs.elems, outputs.elem_begins[i], outputs.elem_ends[i])
                  = Flatten([r \in 1..Len(inputs.ragged) |-> C4_Elems(r, i)])
             /\ Slice(outputs.ids, outputs.id_begins[i], outputs.id_ends[i])
                  = Flatten([r \in 1..Len(inputs.ragged) |->
                               [k \in 1..Len(C4_Elems(r, i)) |-> inputs.ids[r]]])

\* a returned call with a broadcast input and an input of two rows, whose
\* second output row takes elements from both
C4_Witness ==
    /\ op = "CombineSegments"
    /\ pc = "done"
    /\ Len(outputs.elem_begins) = 2
    /\ \E r, q \in 1..Len(inputs.ragged) :
         /\ inputs.ragged[r].rank = 0
         /\ Len(inputs.ragged[q].begins) = 2
         /\ r < q
         /\ C4_Elems(r, 2) # <<>>
         /\ C4_Elems(q, 2) # <<>>

\* ------------------------------------------------------------ packed strings
\* bytes of a string payload
PayloadBytes == {0, 97, 255}

\* an int32 as its four little-endian bytes (two's complement)
WriteInt32(v) ==
    <<v % 256, (v \div 256) % 256, (v \div 65536) % 256, (v \div 16777216) % 256>>

\* *reinterpret_cast<const int32_t*>(buf + pos): every byte past the end of
\* the buffer reads as g
ByteAt(buf, pos, g) == IF pos >= 0 /\ pos < Len(buf) THEN buf[pos + 1] ELSE g

ReadInt32(buf, pos, g) ==
    LET b3 == ByteAt(buf, pos + 3, g)
    IN  ByteAt(buf, pos, g) + 256 * ByteAt(buf, pos + 1, g)
        + 65536 * ByteAt(buf, pos + 2, g)
        + 16777216 * (IF b3 >= 128 THEN b3 - 256 ELSE b3)

\* the packed form [N][offsets[0..N]][payload] of the strings strs
RECURSIVE PackedOffsets(_, _)
PackedOffsets(strs, from) ==
    IF strs = <<>> THEN <<>>
    ELSE <<from + Len(Head(strs))>> \o PackedOffsets(Tail(strs), from + Len(Head(strs)))

CanonicalBuffer(strs) ==
    WriteInt32(Len(strs)) \o WriteInt32(0)
    \o Flatten([i \in 1..Len(strs) |-> WriteInt32(PackedOffsets(strs, 0)[i])])
    \o Flatten(strs)

\* 4 + 4 + 4 * batch_size in int arithmetic: the value modulo 2^32, taken
\* back into the int range
PackedHeaderSize(batch_size) ==
    LET low  == batch_size % 1073741824
        quad == IF low >= 536870912 THEN 4 * (low - 1073741824) ELSE 4 * low
    IN  IF quad > 2147483647 - 8 THEN (quad - 2147483647 - 1) + 8 - 2147483647 - 1
        ELSE quad + 8

\* parse_packed_strings: the two format checks, then the three pointers.  The
\* right side of the second check is an int converted to size_t, so a
\* negative value compares as a huge one.
parse_packed_strings(buf, g) ==
    IF ~(Len(buf) >= 4) THEN [ok |-> FALSE]
    ELSE LET batch_size == ReadInt32(buf, 0, g)
             need == PackedHeaderSize(batch_size)
         IN  IF ~(need >= 0 /\ Len(buf) >= need) THEN [ok |-> FALSE]
             ELSE [ok |-> TRUE, batch_size |-> batch_size, begin_ids |-> 4,
                   end_ids |-> 8, symbols |-> need]

\* StringTensorUnpack::evaluate on a packed u8 tensor.  A batch_size that
\* passed the check and counts more ints than the buffer has bytes, or is
\* negative, gives shapes no tensor is allocated for (sized); oob tells that
\* a read left the buffer.
StringTensorUnpack(buf, g) ==
    LET p == parse_packed_strings(buf, g)
    IN  IF ~p.ok THEN [ok |-> FALSE]
        ELSE IF p.batch_size > Len(buf)
        THEN [ok |-> TRUE, sized |-> FALSE, oob |-> TRUE]
        ELSE LET last      == p.end_ids + 4 * (p.batch_size - 1)
                 num_chars == ReadInt32(buf, last, g)
             IN  IF p.batch_size < 0 \/ num_chars < 0
                 THEN [ok |-> TRUE, sized |-> FALSE, oob |-> last < 0]
                 ELSE [ok     |-> TRUE,
                       sized  |-> TRUE,
                       oob    |-> last + 4 > Len(buf) \/ p.symbols + num_chars > Len(buf),
                       begins |-> [i \in 1..p.batch_size |->
                                     ReadInt32(buf, p.begin_ids + 4 * (i - 1), g)],
                       ends   |-> [i \in 1..p.batch_size |->
                                     ReadInt32(buf, p.end_ids + 4 * (i - 1), g)],
                       chars  |-> [k \in 1..num_chars |-> ByteAt(buf, p.symbols + k - 1, g)]]

\* StringTensorPack::evaluate: the element count, a zero, the ends, the chars
StringTensorPackWritesBegins(begins, ends, chars) ==
    WriteInt32(Len(begins)) \o WriteInt32(0)
    \o Flatten([i \in 1..Len(begins) |-> WriteInt32(begins[i])]) \o chars

StringTensorPack(begins, ends, chars) ==
    WriteInt32(Len(begins)) \o WriteInt32(0)
    \o Flatten([i \in 1..Len(begins) |-> WriteInt32(ends[i])]) \o chars

\* a packed input: the canonical buffer of at most MaxWords strings of at
\* most MaxChars bytes together, whole or cut short
RECURSIVE PackedPick(_, _, _, _)
PackedPick(bytes, n, budget, acc) ==
    IF n = 0
    THEN \E cut \in 0..Len(CanonicalBuffer(acc)) :
           inputs = [packed |-> SubSeq(CanonicalBuffer(acc), 1, cut)]
    ELSE \E str \in SeqsUpTo(bytes, budget) :
           PackedPick(bytes, n - 1, budget - Len(str), Append(acc, str))

\* batch sizes no packer writes: negative ones, and ones whose header size
\* does not fit an int
CorruptBatchSizes == {-2, -1, 536870912, 1073741823, 1073741824}

\* a buffer whose first four bytes hold a corrupt batch size, with at most
\* MaxWords zero ints after them
CorruptPick ==
    \E N \in CorruptBatchSizes :
    \E k \in 0..MaxWords :
      inputs = [packed |-> WriteInt32(N) \o [i \in 1..(4 * k) |-> 0]]

InitPack ==
    /\ op = "StringTensorUnpack"
    /\ pc = "start"
    /\ \/ \E n \in 0..MaxWords : PackedPick(PayloadBytes, n, MaxChars, <<>>)
       \/ CorruptPick
    /\ outputs = [begins |-> <<>>, ends |-> <<>>, chars |-> <<>>, packed |-> <<>>]

\* StringTensorUnpack::evaluate.  A failed format check throws before any
\* output is touched.  Shapes of a negative size throw in set_shape; a read
\* outside the buffer gives whatever the memory holds, or ends the process.
StringTensorUnpackEvaluate ==
    /\ op = "StringTensorUnpack"
    /\ pc = "start"
    /\ \E g \in Garbage :
         LET r == StringTensorUnpack(inputs.packed, g)
         IN  IF ~r.ok THEN pc' = "failed" /\ outputs' = outputs
             ELSE IF ~r.sized
             THEN /\ pc' \in (IF r.oob THEN {"failed", "crashed"} ELSE {"failed"})
                  /\ outputs' = outputs
             ELSE /\ pc' \in (IF r.oob THEN {"unpacked", "crashed"} ELSE {"unpacked"})
                  /\ outputs' = IF pc' = "unpacked"
                                THEN [outputs EXCEPT !.begins = r.begins, !.ends = r.ends,
                                                     !.chars = r.chars]
                                ELSE outputs
    /\ UNCHANGED <<op, inputs>>

\* StringTensorPack::evaluate on the triple the unpack produced
StringTensorPackEvaluate ==
    /\ op = "StringTensorUnpack"
    /\ pc = "unpacked"
    /\ pc' = "packed"
    /\ outputs' = [outputs EXCEPT
                     !.packed = StringTensorPack(outputs.begins, outputs.ends, outputs.chars)]
    /\ UNCHANGED <<op, inputs>>

NextPack == StringTensorUnpackEvaluate \/ StringTensorPackEvaluate

SpecPack == InitPack /\ [][NextPack]_vars

\* a packed buffer is canonical: it holds its header, offsets[0] = 0, the
\* offsets do not decrease and the payload has offsets[N] bytes
C7_Canonical(buf) ==
    /\ Len(buf) >= 8
    /\ LET N == ReadInt32(buf, 0, 0)
       IN  /\ N >= 0
           /\ N <= Len(buf)
           /\ Len(buf) >= 8 + 4 * N
           /\ ReadInt32(buf, 4, 0) = 0
           /\ \A i \in 1..N : ReadInt32(buf, 4 * i, 0) <= ReadInt32(buf, 4 + 4 * i, 0)
           /\ Len(buf) = 8 + 4 * N + ReadInt32(buf, 4 + 4 * N, 0)

\* C7: unpacking a canonical packed buffer and packing the result gives the
\* buffer back byte for byte; neither step fails.
C7_PackAfterUnpackIsIdentity ==
    (op = "StringTensorUnpack" /\ C7_Canonical(inputs.packed)) =>
        /\ pc # "failed"
        /\ pc = "packed" => outputs.packed = inputs.packed

\* a repacked buffer of two strings, the first of them not empty
C7_Witness ==
    /\ op = "StringTensorUnpack"
    /\ pc = "packed"
    /\ C7_Canonical(inputs.packed)
    /\ Len(outputs.begins) = 2
    /\ outputs.ends[1] > 0
    /\ outputs.ends[2] > outputs.ends[1]

\* ------------------------------------------------------------ normalizers
\* bytes of the strings given to the normalizers: 'A', and the two bytes of
\* U+00E9
NormBytes == {65, 195, 169}

\* does s hold pat at 0-based position at
MatchesAt(s, pat, at) ==
    /\ at + Len(pat) <= Len(s)
    /\ \A k \in 1..Len(pat) : s[at + k] = pat[k]

\* every occurrence of the literal pat in s, left to right, replaced by rep
RECURSIVE ReplaceAll(_, _, _, _)
ReplaceAll(s, pat, rep, at) ==
    IF at >= Len(s) THEN <<>>
    ELSE IF MatchesAt(s, pat, at)
    THEN rep \o ReplaceAll(s, pat, rep, at + Len(pat))
    ELSE <<s[at + 1]>> \o ReplaceAll(s, pat, rep, at + 1)

\* NormalizedString(str).Lowercase().GetStr(), on ASCII
Lowercase(str) == [k \in 1..Len(str) |-> IF str[k] \in 65..90 THEN str[k] + 32 ELSE str[k]]

\* NormalizedString(str).NFD().GetStr(): U+00E9 becomes 'e' and U+0301
NFD(str) == ReplaceAll(str, <<195, 169>>, <<101, 204, 129>>, 0)

\* NormalizedString(str).Replace(search_pattern_re, replace_pattern).GetStr()
\* for a literal pattern; both buffers come with one byte of padding, which
\* RegexNormalization::evaluate drops
RegexReplace(str, search_buf, replace_buf) ==
    ReplaceAll(str, SubSeq(search_buf, 1, Len(search_buf) - 1),
               SubSeq(replace_buf, 1, Len(replace_buf) - 1), 0)

\* the function each operator hands to evaluate_normalization_helper
Normalizer(in, str) ==
    CASE in.kind = "CaseFold" -> Lowercase(str)
      [] in.kind = "NormalizeUnicode" -> NFD(str)
      [] in.kind = "RegexNormalization" -> RegexReplace(str, in.search, in.replace)

\* one iteration of the loop of evaluate_normalization_helper
NormalizationStepKeepsOffsets(in, i, acc) ==
    LET new_str == Normalizer(in, Slice(in.chars, in.begins[i], in.ends[i]))
    IN  [begins |-> acc.begins \o <<in.begins[i]>>,
         ends   |-> acc.ends \o <<in.ends[i]>>,
         chars  |-> acc.chars \o new_str]

NormalizationStep(in, i, acc) ==
    LET new_str == Normalizer(in, Slice(in.chars, in.begins[i], in.ends[i]))
    IN  [begins |-> acc.begins \o <<Len(acc.chars)>>,
         ends   |-> acc.ends \o <<Len(acc.chars) + Len(new_str)>>,
         chars  |-> acc.chars \o new_str]

RECURSIVE evaluate_normalization_helper(_, _, _)
evaluate_normalization_helper(in, i, acc) ==
    IF i > Len(in.begins) THEN acc
    ELSE evaluate_normalization_helper(in, i + 1, NormalizationStep(in, i, acc))

EmptyTriple == [begins |-> <<>>, ends |-> <<>>, chars |-> <<>>]

\* the input of one call: any string triple within the invariants
\* 0 <= begins[i] <= ends[i] <= len(chars), for one of the three operators
InitNormalization ==
    /\ op \in {"CaseFold", "NormalizeUnicode", "RegexNormalization"}
    /\ pc = "start"
    /\ \E c \in SeqsUpTo(NormBytes, MaxChars) :
         \E words \in SeqsUpTo(Ranges(Len(c)), MaxWords) :
           \E rep \in {<<32>>, <<66, 66, 32>>} :
             inputs = [kind |-> op, begins |-> Firsts(words), ends |-> Seconds(words),
                       chars |-> c, search |-> <<65, 32>>,
                       replace |-> IF op = "RegexNormalization" THEN rep ELSE <<32>>]
    /\ outputs = EmptyTriple

CaseFoldEvaluate ==
    /\ op = "CaseFold"
    /\ pc = "start"
    /\ outputs' = evaluate_normalization_helper(inputs, 1, EmptyTriple)
    /\ pc' = "done"
    /\ UNCHANGED <<op, inputs>>

NormalizeUnicodeEvaluate ==
    /\ op = "NormalizeUnicode"
    /\ pc = "start"
    /\ outputs' = evaluate_normalization_helper(inputs, 1, EmptyTriple)
    /\ pc' = "done"
    /\ UNCHANGED <<op, inputs>>

RegexNormalizationEvaluate ==
    /\ op = "RegexNormalization"
    /\ pc = "start"
    /\ outputs' = evaluate_normalization_helper(inputs, 1, EmptyTriple)
    /\ pc' = "done"
    /\ UNCHANGED <<op, inputs>>

NextNormalization ==
    CaseFoldEvaluate \/ NormalizeUnicodeEvaluate \/ RegexNormalizationEvaluate

SpecNormalization == InitNormalization /\ [][NextNormalization]_vars

\* C8: after a normalizer with string function f has run on M strings, the
\* output begins and ends have M entries, output string i is f of input
\* string i, and 0 <= begins[i] <= ends[i] <= len(chars) for every i, whatever
\* gaps or overlaps the input triple had.
C8_NormalizersKeepShapeAndInvariant ==
    (op \in {"CaseFold", "NormalizeUnicode", "RegexNormalization"} /\ pc = "done") =>
        /\ Len(outputs.begins) = Len(inputs.begins)
        /\ Len(outputs.ends) = Len(inputs.ends)
        /\ \A i \in 1..Len(inputs.begins) :
             /\ 0 <= outputs.begins[i]
             /\ outputs.begins[i] <= outputs.ends[i]
             /\ outputs.ends[i] <= Len(outputs.chars)
             /\ Slice(outputs.chars, outputs.begins[i], outputs.ends[i])
                  = Normalizer(inputs, Slice(inputs.chars, inputs.begins[i], inputs.ends[i]))

\* a finished call on two overlapping input strings, one of which the
\* function changes in length
C8_Witness ==
    /\ op \in {"NormalizeUnicode", "RegexNormalization"}
    /\ pc = "done"
    /\ Len(inputs.begins) = 2
    /\ inputs.begins[2] < inputs.ends[1]
    /\ inputs.begins[1] < inputs.ends[2]
    /\ \E i \in 1..2 :
         outputs.ends[i] - outputs.begins[i] # inputs.ends[i] - inputs.begins[i]

\* ------------------------------------------------------------ SentencepieceTokenizer
\* the ids SampleEncode returns for sentence batch_ind when it yields n
\* tokens; every id names its sentence and position
SampleEncode(batch_ind, n) == [p \in 1..n |-> 10 * (batch_ind + 1) + p]

\* bytes of a sentence
SentenceBytes == {97}

\* the body of the loop over the batch: the ids of one sentence are put into
\* the result vectors
SentencepieceStepLastSize(acc, batch_ind, ids) ==
    [indices      |-> acc.indices \o [p \in 1..Len(ids) |-> <<batch_ind, p - 1>>],
     values       |-> acc.values \o ids,
     max_token_id |-> Len(ids)]

SentencepieceStep(acc, batch_ind, ids) ==
    [indices      |-> acc.indices \o [p \in 1..Len(ids) |-> <<batch_ind, p - 1>>],
     values       |-> acc.values \o ids,
     max_token_id |-> IF acc.max_token_id < Len(ids) THEN Len(ids) ELSE acc.max_token_id]

RECURSIVE SentencepieceLoop(_, _, _)
SentencepieceLoop(ids, batch_ind, acc) ==
    IF batch_ind >= Len(ids) THEN acc
    ELSE SentencepieceLoop(ids, batch_ind + 1,
                           SentencepieceStep(acc, batch_ind, ids[batch_ind + 1]))

\* the sentence of batch index batch_ind: data[begin_ind .. end_ind)
SentencepieceSentence(buf, p, batch_ind, g) ==
    LET begin_ind == ReadInt32(buf, p.begin_ids + 4 * batch_ind, g)
        end_ind   == ReadInt32(buf, p.end_ids + 4 * batch_ind, g)
    IN  [k \in 1..(end_ind - begin_ind) |-> ByteAt(buf, p.symbols + begin_ind + k - 1, g)]

\* does reading the sentences stay inside the packed buffer
SentencepieceReadsInside(buf, p) ==
    \A b \in 0..(p.batch_size - 1) :
        LET begin_ind == ReadInt32(buf, p.begin_ids + 4 * b, 0)
            end_ind   == ReadInt32(buf, p.end_ids + 4 * b, 0)
        IN  end_ind > begin_ind =>
              (p.symbols + begin_ind >= 0 /\ p.symbols + end_ind <= Len(buf))

EmptySparse ==
    [indices |-> <<>>, values |-> <<>>, dense_shape |-> <<>>, sentences |-> <<>>, ids |-> <<>>]

InitSentencepiece ==
    /\ op = "SentencepieceTokenizer"
    /\ pc = "start"
    /\ \E n \in 0..MaxWords : PackedPick(SentenceBytes, n, MaxChars, <<>>)
    /\ outputs = EmptySparse

\* SentencepieceTokenizer::evaluate.  The encoder is a sampler: any sentence
\* may yield any number of tokens, or fail, and CHECK_OK ends the process on
\* a failure.
SentencepieceTokenizerEvaluate ==
    /\ op = "SentencepieceTokenizer"
    /\ pc = "start"
    /\ \E g \in Garbage :
         LET p == parse_packed_strings(inputs.packed, g)
         IN  IF ~p.ok THEN pc' = "failed" /\ outputs' = outputs
             ELSE IF p.batch_size < 0 THEN pc' = "crashed" /\ outputs' = outputs
             ELSE \E n \in [1..p.batch_size -> (-1)..MaxTokens] :
                    IF \E b \in 1..p.batch_size : n[b] = -1
                    THEN pc' = "crashed" /\ outputs' = outputs
                    ELSE LET ids == [b \in 1..p.batch_size |-> SampleEncode(b - 1, n[b])]
                             acc == SentencepieceLoop(ids, 0,
                                      [indices |-> <<>>, values |-> <<>>, max_token_id |-> 0])
                         IN  /\ outputs' =
                                  [indices     |-> acc.indices,
                                   values      |-> acc.values,
                                   dense_shape |-> <<p.batch_size, acc.max_token_id>>,
                                   sentences   |-> [b \in 1..p.batch_size |->
                                       SentencepieceSentence(inputs.packed, p, b - 1, g)],
                                   ids         |-> ids]
                             /\ IF SentencepieceReadsInside(inputs.packed, p)
                                THEN pc' = "done"
                                ELSE pc' \in {"done", "crashed"}
    /\ UNCHANGED <<op, inputs>>

SpecSentencepiece == InitSentencepiece /\ [][SentencepieceTokenizerEvaluate]_vars

\* number of tokens of the sentences before batch index b (1-based b)
C9_Before(ids, b) == SumSeq([i \in 1..(b - 1) |-> Len(ids[i])])

\* C9: when sentence b of a batch of N yields n_b tokens, indices lists the
\* pairs (b, p), b = 0..N-1, p = 0..n_b-1, by batch index and then token
\* position, values[k] is the id of the k-th pair, there are sum of n_b index
\* rows and as many values, and dense_shape = (N, max n_b).
C9_SparseOutputIsRowMajor ==
    (op = "SentencepieceTokenizer" /\ pc = "done") =>
        LET ids == outputs.ids
            N   == Len(ids)
            total == SumSeq([i \in 1..N |-> Len(ids[i])])
        IN  /\ N = ReadInt32(inputs.packed, 0, 0)
            /\ Len(outputs.indices) = total
            /\ Len(outputs.values) = total
            /\ outputs.dense_shape[1] = N
            /\ \A b \in 1..N : Len(ids[b]) <= outputs.dense_shape[2]
            /\ \/ \E b \in 1..N : Len(ids[b]) = outputs.dense_shape[2]
               \/ N = 0 /\ outputs.dense_shape[2] = 0
            /\ \A b \in 1..N : \A q \in 1..Len(ids[b]) :
                 /\ outputs.indices[C9_Before(ids, b) + q] = <<b - 1, q - 1>>
                 /\ outputs.values[C9_Before(ids, b) + q] = ids[b][q]

\* a finished batch of two sentences, the first with more tokens than the
\* second
C9_Witness ==
    /\ op = "SentencepieceTokenizer"
    /\ pc = "done"
    /\ Len(outputs.ids) = 2
    /\ Len(outputs.ids[1]) = 2
    /\ Len(outputs.ids[2]) = 1

\* ------------------------------------------------------------ ragged strings
\* n strings laid out one after the other in a chars buffer of length len,
\* which they fill; a string may be empty
Words(len, n) ==
    {w \in [1..n -> Ranges(len)] :
        /\ n > 0 => (w[1][1] = 0 /\ w[n][2] = len)
        /\ \A i \in 1..(n - 1) : w[i][2] = w[i + 1][1]}

\* b rows over w words: consecutive rows that together hold every word; a
\* row may be empty
Rows(w, b) ==
    {r \in [1..b -> Ranges(w)] :
        /\ b > 0 => (r[1][1] = 0 /\ r[b][2] = w)
        /\ \A i \in 1..(b - 1) : r[i][2] = r[i + 1][1]}

\* ------------------------------------------------------------ RegexSplit
\* bytes of the strings given to RegexSplit: 'a' and ','
SplitBytes == {97, 44}

split_modes ==
    [remove |-> "REMOVED", isolate |-> "ISOLATED",
     merge_with_previous |-> "MERGED_WITH_PREVIOUS", merge_with_next |-> "MERGED_WITH_NEXT"]

\* start offsets of the matches of the literal pat in str, left to right
RECURSIVE MatchPositions(_, _, _)
MatchPositions(str, pat, at) ==
    IF at + Len(pat) > Len(str) THEN <<>>
    ELSE IF MatchesAt(str, pat, at)
    THEN <<at>> \o MatchPositions(str, pat, at + Len(pat))
    ELSE MatchPositions(str, pat, at + 1)

\* the spans of str in encounter order: the span before the first match, a
\* match, the span between two matches, ..., the span after the last match;
\* invert swaps the roles of match and non-match
Segments(str, pat, invert) ==
    LET ps == MatchPositions(str, pat, 0)
        n  == Len(ps)
    IN  [s \in 1..(2 * n + 1) |->
           IF s % 2 = 1
           THEN LET i == (s - 1) \div 2
                IN  [first  |-> IF i = 0 THEN 0 ELSE ps[i] + Len(pat),
                     second |-> IF i = n THEN Len(str) ELSE ps[i + 1],
                     match  |-> invert]
           ELSE [first |-> ps[s \div 2], second |-> ps[s \div 2] + Len(pat),
                 match |-> ~invert]]

RECURSIVE Removed(_, _)
Removed(segs, k) ==
    IF k > Len(segs) THEN <<>>
    ELSE (IF segs[k].match THEN <<>> ELSE <<<<segs[k].first, segs[k].second>>>>)
         \o Removed(segs, k + 1)

Isolated(segs) == [k \in 1..Len(segs) |-> <<segs[k].first, segs[k].second>>]

\* each match span is joined to the span before it
RECURSIVE MergedWithPrevious(_, _, _)
MergedWithPrevious(segs, k, acc) ==
    IF k > Len(segs) THEN acc
    ELSE IF segs[k].match /\ acc # <<>> /\ ~segs[k - 1].match
    THEN MergedWithPrevious(segs, k + 1,
            [acc EXCEPT ![Len(acc)] = <<acc[Len(acc)][1], segs[k].second>>])
    ELSE MergedWithPrevious(segs, k + 1, Append(acc, <<segs[k].first, segs[k].second>>))

\* each match span is joined to the span after it
RECURSIVE MergedWithNext(_, _, _)
MergedWithNext(segs, k, acc) ==
    IF k < 1 THEN acc
    ELSE IF segs[k].match /\ acc # <<>> /\ ~segs[k + 1].match
    THEN MergedWithNext(segs, k - 1, [acc EXCEPT ![1] = <<segs[k].first, acc[1][2]>>])
    ELSE MergedWithNext(segs, k - 1, <<<<segs[k].first, segs[k].second>>>> \o acc)

\* SplitPreTokenizer(pattern, mode, invert) applied to str: the
\* (first, second) original offsets of the splits, in split order
SplitPreTokenizer(str, pat, mode, invert) ==
    LET segs == Segments(str, pat, invert)
    IN  CASE mode = "REMOVED" -> Removed(segs, 1)
          [] mode = "ISOLATED" -> Isolated(segs)
          [] mode = "MERGED_WITH_PREVIOUS" -> MergedWithPrevious(segs, 1, <<>>)
          [] mode = "MERGED_WITH_NEXT" -> MergedWithNext(segs, Len(segs), <<>>)

\* the splits of word (0-based) of the input, as the splitter gives them:
\* offsets from the start of the word
RegexSplitSpansNotShifted(in, word) ==
    SplitPreTokenizer(Slice(in.chars, in.begins[word + 1], in.ends[word + 1]),
                      in.split_pattern, split_modes[in.behaviour], in.invert)

\* the splits of word (0-based) of the input, shifted by begins[word]
RegexSplitSpans(in, word) ==
    LET str    == Slice(in.chars, in.begins[word + 1], in.ends[word + 1])
        splits == SplitPreTokenizer(str, in.split_pattern, split_modes[in.behaviour],
                                    in.invert)
    IN  [j \in 1..Len(splits) |->
           <<in.begins[word + 1] + splits[j][1], in.begins[word + 1] + splits[j][2]>>]

\* the body of the word loop.  new_ragged_begins[seq] is assigned here, once
\* per word; oob records an access outside a tensor.
RegexSplitWord(in, acc, seq, word) ==
    LET spans == RegexSplitSpans(in, word)
    IN  [ragged_begins |->
            IF seq < Len(acc.ragged_begins)
            THEN [acc.ragged_begins EXCEPT ![seq + 1] = Len(acc.begins)]
            ELSE acc.ragged_begins,
         ragged_ends |-> acc.ragged_ends,
         begins |-> acc.begins \o Firsts(spans),
         ends   |-> acc.ends \o Seconds(spans),
         oob    |-> \/ acc.oob
                    \/ seq >= Len(acc.ragged_begins)
                    \/ Len(acc.begins) + Len(spans) > Len(in.chars)]

RECURSIVE RegexSplitWords(_, _, _, _, _)
RegexSplitWords(in, acc, seq, word, end) ==
    IF word >= end THEN acc
    ELSE RegexSplitWords(in, RegexSplitWord(in, acc, seq, word), seq, word + 1, end)

\* the body of the loop over seq: rows holds the ragged_begins/ragged_ends
\* the loop reads; a read past their end gives the range oobrow
RegexSplitRow(in, rows, acc, seq, oobrow) ==
    LET rng == IF seq < Len(rows) THEN rows[seq + 1] ELSE oobrow
        a   == RegexSplitWords(in, [acc EXCEPT !.oob = @ \/ seq >= Len(rows)],
                               seq, rng[1], rng[2])
    IN  [a EXCEPT !.ragged_ends =
            IF seq < Len(@) THEN [@ EXCEPT ![seq + 1] = Len(a.begins)] ELSE @,
                  !.oob = @ \/ seq >= Len(a.ragged_ends)]

RECURSIVE RegexSplitLoop(_, _, _, _, _, _)
RegexSplitLoop(in, rows, acc, seq, num_elements, oobrow) ==
    IF seq >= num_elements THEN acc
    ELSE RegexSplitLoop(in, rows, RegexSplitRow(in, rows, acc, seq, oobrow),
                        seq + 1, num_elements, oobrow)

\* RegexSplit::evaluate on a flat triple or a ragged quintuple.  The row
\* tensors of the output start out uninitialized (every entry g).  In both
\* branches num_elements is the size of the begins tensor.
RegexSplit(in, g, oobrow) ==
    LET rows == IF in.form = "flat"
                THEN [i \in 1..Len(in.begins) |-> <<i - 1, i>>]
                ELSE [i \in 1..Len(in.ragged_begins) |->
                        <<in.ragged_begins[i], in.ragged_ends[i]>>]
        num_elements == Len(in.begins)
    IN  RegexSplitLoop(in, rows,
            [ragged_begins |-> [i \in 1..Len(rows) |-> g],
             ragged_ends   |-> [i \in 1..Len(rows) |-> g],
             begins |-> <<>>, ends |-> <<>>, oob |-> FALSE],
            0, num_elements, oobrow)

\* what a read of ragged_begins[seq], ragged_ends[seq] past the end of the
\* row tensors can give: an empty range or the first word
RegexSplitOobRows(in) ==
    IF in.form = "ragged" /\ Len(in.begins) > Len(in.ragged_begins)
    THEN {<<0, 0>>, <<0, 1>>}
    ELSE {<<0, 0>>}

EmptyQuintuple ==
    [ragged_begins |-> <<>>, ragged_ends |-> <<>>, begins |-> <<>>, ends |-> <<>>,
     chars |-> <<>>]

InitRegexSplit ==
    /\ op = "RegexSplit"
    /\ pc = "start"
    /\ \E c \in SeqsUpTo(SplitBytes, MaxChars) :
       \E w \in 0..MaxWords :
       \E words \in Words(Len(c), w) :
       \E rows \in UNION {Rows(w, b) : b \in 0..MaxRows} :
       \E form \in (IF rows = <<>> THEN {"flat", "ragged"} ELSE {"ragged"}) :
       \E behaviour \in DOMAIN split_modes :
       \E invert \in BOOLEAN :
         inputs = [form |-> form,
                   ragged_begins |-> Firsts(rows), ragged_ends |-> Seconds(rows),
                   begins |-> Firsts(words), ends |-> Seconds(words), chars |-> c,
                   split_pattern |-> <<44>>, behaviour |-> behaviour, invert |-> invert]
    /\ outputs = EmptyQuintuple

\* outputs[4] = inputs[2] (flat form) or inputs[4] (ragged form): the output
\* chars tensor is the input chars tensor
RegexSplitCharsWithoutMatches(in) == ReplaceAll(in.chars, in.split_pattern, <<>>, 0)

RegexSplitChars(in) == in.chars

RegexSplitEvaluate ==
    /\ op = "RegexSplit"
    /\ pc = "start"
    /\ \E g \in Garbage :
       \E oobrow \in RegexSplitOobRows(inputs) :
         LET r == RegexSplit(inputs, g, oobrow)
         IN  /\ pc' \in (IF r.oob THEN {"done", "crashed"} ELSE {"done"})
             /\ outputs' = IF pc' = "done"
                           THEN [ragged_begins |-> r.ragged_begins,
                                 ragged_ends |-> r.ragged_ends,
                                 begins |-> r.begins, ends |-> r.ends,
                                 chars |-> RegexSplitChars(inputs)]
                           ELSE outputs
    /\ UNCHANGED <<op, inputs>>

SpecRegexSplit == InitRegexSplit /\ [][RegexSplitEvaluate]_vars

\* the substrings of input row j (1-based): the splits of its words, in word
\* order then split order
C1_RowSpans(j) ==
    Flatten([k \in 1..(inputs.ragged_ends[j] - inputs.ragged_begins[j]) |->
               RegexSplitSpans(inputs, inputs.ragged_begins[j] + k - 1)])

\* C1: RegexSplit on a ragged quintuple with B rows produces B output rows,
\* and output row j, [rag_begins[j], rag_ends[j]), holds exactly the
\* substrings of all words of input row j, in word order then split order.
C1_RaggedRowsCoverAllWords ==
    (op = "RegexSplit" /\ pc = "done" /\ inputs.form = "ragged") =>
        /\ Len(outputs.ragged_begins) = Len(inputs.ragged_begins)
        /\ Len(outputs.ragged_ends) = Len(inputs.ragged_begins)
        /\ \A j \in 1..Len(inputs.ragged_begins) :
             /\ 0 <= outputs.ragged_begins[j]
             /\ outputs.ragged_begins[j] <= outputs.ragged_ends[j]
             /\ outputs.ragged_ends[j] <= Len(outputs.begins)
             /\ [k \in 1..(outputs.ragged_ends[j] - outputs.ragged_begins[j]) |->
                   <<outputs.begins[outputs.ragged_begins[j] + k],
                     outputs.ends[outputs.ragged_begins[j] + k]>>] = C1_RowSpans(j)

\* C10: for every input row j of a ragged quintuple that holds no words, the
\* output has rag_begins[j] = rag_ends[j], both the number of substrings
\* emitted for the rows before j.
C10_EmptyRowGivesEmptyRow ==
    (op = "RegexSplit" /\ pc = "done" /\ inputs.form = "ragged") =>
        \A j \in 1..Len(inputs.ragged_begins) :
            inputs.ragged_begins[j] = inputs.ragged_ends[j] =>
                /\ outputs.ragged_begins[j] = outputs.ragged_ends[j]
                /\ outputs.ragged_begins[j]
                     = SumSeq([i \in 1..(j - 1) |-> Len(C1_RowSpans(i))])

\* ------------------------------------------------------------ BytesToChars
\* bytes of the strings given to BytesToChars: 'a', which the table keeps,
\* and ' ', which it maps to two bytes
RawBytes == {97, 32}

\* m_bytes_to_chars.at(byte): the entry of one byte
BytesToCharsEntryLowHalf(byte) == create_bytes_to_chars_map[(byte % 128) + 1]

BytesToCharsEntry(byte) == create_bytes_to_chars_map[byte + 1]

\* the table entries of the bytes of chars[from .. to)
BytesToCharsString(chars, from, to) ==
    Flatten([k \in 1..(to - from) |-> BytesToCharsEntry(chars[from + k])])

\* the two inner loops: every word i of row j, byte by byte
BytesToCharsRowChars(in, j) ==
    Flatten([i \in 1..(in.ragged_ends[j] - in.ragged_begins[j]) |->
               BytesToCharsString(in.chars, in.begins[in.ragged_begins[j] + i],
                                  in.ends[in.ragged_begins[j] + i])])

\* the body of the loop over j (1-based here): new_begins[j] and new_ends[j]
\* are written around the bytes of the whole row
BytesToCharsRow(in, acc, j) ==
    LET written == acc.written \o BytesToCharsRowChars(in, j)
    IN  [begins  |-> IF j <= Len(acc.begins)
                     THEN [acc.begins EXCEPT ![j] = Len(acc.written)] ELSE acc.begins,
         ends    |-> IF j <= Len(acc.ends)
                     THEN [acc.ends EXCEPT ![j] = Len(written)] ELSE acc.ends,
         written |-> written,
         oob     |-> acc.oob \/ j > Len(acc.begins) \/ Len(written) > 2 * Len(in.chars)]

RECURSIVE BytesToCharsLoop(_, _, _)
BytesToCharsLoop(in, acc, j) ==
    IF j > Len(in.ragged_begins) THEN acc
    ELSE BytesToCharsLoop(in, BytesToCharsRow(in, acc, j), j + 1)

\* BytesToChars::evaluate: begins and ends take the shape of the input
\* begins and ends, chars twice the input size, all uninitialized (g) where
\* the loop does not write
BytesToChars(in, g) ==
    LET r == BytesToCharsLoop(in, [begins  |-> [i \in 1..Len(in.begins) |-> g],
                                   ends    |-> [i \in 1..Len(in.ends) |-> g],
                                   written |-> <<>>, oob |-> FALSE], 1)
    IN  [ragged_begins |-> in.ragged_begins,
         ragged_ends   |-> in.ragged_ends,
         begins        |-> r.begins,
         ends          |-> r.ends,
         chars         |-> [k \in 1..(2 * Len(in.chars)) |->
                              IF k <= Len(r.written) THEN r.written[k] ELSE g],
         oob           |-> r.oob]

InitBytesToChars ==
    /\ op = "BytesToChars"
    /\ pc = "start"
    /\ \E c \in SeqsUpTo(RawBytes, MaxChars) :
       \E w \in 0..MaxWords :
       \E words \in Words(Len(c), w) :
       \E rows \in UNION {Rows(w, b) : b \in 0..MaxRows} :
         inputs = [ragged_begins |-> Firsts(rows), ragged_ends |-> Seconds(rows),
                   begins |-> Firsts(words), ends |-> Seconds(words), chars |-> c]
    /\ outputs = EmptyQuintuple

BytesToCharsEvaluate ==
    /\ op = "BytesToChars"
    /\ pc = "start"
    /\ \E g \in Garbage :
         LET r == BytesToChars(inputs, g)
         IN  /\ pc' \in (IF r.oob THEN {"done", "crashed"} ELSE {"done"})
             /\ outputs' = IF pc' = "done"
                           THEN [ragged_begins |-> r.ragged_begins,
                                 ragged_ends |-> r.ragged_ends,
                                 begins |-> r.begins, ends |-> r.ends, chars |-> r.chars]
                           ELSE outputs
    /\ UNCHANGED <<op, inputs>>

SpecBytesToChars == InitBytesToChars /\ [][BytesToCharsEvaluate]_vars

\* C2: BytesToChars passes rag_begins/rag_ends through, and for every string
\* index k of some row, output string k, chars_out[begins_out[k] ..
\* ends_out[k]), is the concatenation of table[b] over the bytes b of input
\* string k, for any number of words per row.
C2_BytesToCharsKeepsRaggedStructure ==
    (op = "BytesToChars" /\ pc = "done") =>
        /\ outputs.ragged_begins = inputs.ragged_begins
        /\ outputs.ragged_ends = inputs.ragged_ends
        /\ \A j \in 1..Len(inputs.ragged_begins) :
           \A k \in (inputs.ragged_begins[j] + 1)..inputs.ragged_ends[j] :
             /\ k <= Len(outputs.begins)
             /\ 0 <= outputs.begins[k]
             /\ outputs.begins[k] <= outputs.ends[k]
             /\ outputs.ends[k] <= Len(outputs.chars)
             /\ Slice(outputs.chars, outputs.begins[k], outputs.ends[k])
                  = BytesToCharsString(inputs.chars, inputs.begins[k], inputs.ends[k])

\* ------------------------------------------------------------ WordpieceTokenizer
\* bytes of the words given to the tokenizer: 'a' and 'b'
WordBytes == {97, 98}

\* vocabularies, row i being the token of id i: "?", "a", "#b"; "ab", "a",
\* "?", "#a"; and "?" alone
Vocabs ==
    {<<<<63>>, <<97>>, <<35, 98>>>>,
     <<<<97, 98>>, <<97>>, <<63>>, <<35, 97>>>>,
     <<<<63>>>>}

\* the decomposed triple of the strings strs, laid out one after the other
StringTriple(strs) ==
    [begins |-> [i \in 1..Len(strs) |-> IF i = 1 THEN 0 ELSE PackedOffsets(strs, 0)[i - 1]],
     ends   |-> PackedOffsets(strs, 0),
     chars  |-> Flatten(strs)]

WordpieceVocabToken(in, id) ==
    Slice(in.vocab_chars, in.vocab_begins[id + 1], in.vocab_ends[id + 1])

\* vocab[token] after the loop that fills the map (a later row replaces an
\* earlier one), -1 when the map has no such key
WordpieceVocabIdCountsFromOne(in, token) ==
    LET ids == {id \in 0..(Len(in.vocab_begins) - 1) : WordpieceVocabToken(in, id) = token}
    IN  IF ids = {} THEN -1 ELSE (CHOOSE m \in ids : \A x \in ids : x <= m) + 1

WordpieceVocabId(in, token) ==
    LET ids == {id \in 0..(Len(in.vocab_begins) - 1) : WordpieceVocabToken(in, id) = token}
    IN  IF ids = {} THEN -1 ELSE CHOOSE m \in ids : \A x \in ids : x <= m

\* unk_token_id with a negative value -k taken as row k - 1
WordpieceUnkTokenIdFromFront(in) ==
    IF in.unk_token_id < 0 THEN -in.unk_token_id - 1 ELSE in.unk_token_id

\* unk_token_id after a negative value has had vocab_size added
WordpieceUnkTokenId(in) ==
    IF in.unk_token_id < 0 THEN in.unk_token_id + Len(in.vocab_begins) ELSE in.unk_token_id

\* unk_token: the token of row unk_token_id, left empty when no row has that id
WordpieceUnkToken(in) ==
    IF WordpieceUnkTokenId(in) >= 0 /\ WordpieceUnkTokenId(in) < Len(in.vocab_begins)
    THEN WordpieceVocabToken(in, WordpieceUnkTokenId(in))
    ELSE <<>>

\* the key under which the piece str[from .. to) is looked up
FastWordPieceKey(in, str, from, to) ==
    (IF from > 0 THEN in.suffix_indicator ELSE <<>>) \o Slice(str, from, to)

\* the end of the longest piece of the vocabulary that starts at from, or -1
FastWordPieceLongest(in, str, from) ==
    LET c == {to \in (from + 1)..Len(str) :
                WordpieceVocabId(in, FastWordPieceKey(in, str, from, to)) >= 0}
    IN  IF c = {} THEN -1 ELSE CHOOSE m \in c : \A x \in c : x <= m

\* greedy longest match from the left; a word that cannot be covered gives
\* the unknown token alone
RECURSIVE FastWordPieceGreedy(_, _, _, _)
FastWordPieceGreedy(in, str, from, acc) ==
    IF from >= Len(str) THEN acc
    ELSE LET to == FastWordPieceLongest(in, str, from)
         IN  IF to = -1 THEN <<WordpieceVocabId(in, WordpieceUnkToken(in))>>
             ELSE FastWordPieceGreedy(in, str, to,
                    Append(acc, WordpieceVocabId(in, FastWordPieceKey(in, str, from, to))))

\* FastWordPiece(vocab, unk_token, max_bytes_per_word, suffix_indicator)
\* .Tokenize(str): the ids of the tokens
FastWordPieceTokenize(in, str) ==
    IF Len(str) > in.max_bytes_per_word
    THEN <<WordpieceVocabId(in, WordpieceUnkToken(in))>>
    ELSE FastWordPieceGreedy(in, str, 0, <<>>)

\* the ids of word i (0-based) of the input
WordpieceWordIds(in, i) ==
    FastWordPieceTokenize(in, Slice(in.chars, in.begins[i + 1], in.ends[i + 1]))

\* the body of the loop over j (1-based here): new_begins[j], the ids of the
\* words of row j, new_ends[j]
WordpieceRowBeginsPerWord(in, acc, j) ==
    LET n     == in.ragged_ends[j] - in.ragged_begins[j]
        ids   == [i \in 1..n |-> WordpieceWordIds(in, in.ragged_begins[j] + i - 1)]
        elems == acc.elems \o Flatten(ids)
    IN  [begins |-> Append(acc.begins, Len(elems) - (IF n > 0 THEN Len(ids[n]) ELSE 0)),
         ends   |-> Append(acc.ends, Len(elems)),
         elems  |-> elems]

WordpieceRow(in, acc, j) ==
    LET n     == in.ragged_ends[j] - in.ragged_begins[j]
        ids   == [i \in 1..n |-> WordpieceWordIds(in, in.ragged_begins[j] + i - 1)]
        elems == acc.elems \o Flatten(ids)
    IN  [begins |-> Append(acc.begins, Len(acc.elems)),
         ends   |-> Append(acc.ends, Len(elems)),
         elems  |-> elems]

RECURSIVE WordpieceLoop(_, _, _)
WordpieceLoop(in, acc, j) ==
    IF j > Len(in.ragged_begins) THEN acc
    ELSE WordpieceLoop(in, WordpieceRow(in, acc, j), j + 1)

EmptyRagged == [begins |-> <<>>, ends |-> <<>>, elems |-> <<>>]

InitWordpiece ==
    /\ op = "WordpieceTokenizer"
    /\ pc = "start"
    /\ \E c \in SeqsUpTo(WordBytes, MaxChars) :
       \E w \in 0..MaxWords :
       \E words \in Words(Len(c), w) :
       \E rows \in UNION {Rows(w, b) : b \in 0..MaxRows} :
       \E v \in Vocabs :
       \E unk_token_id \in {-Len(v) - 1, -Len(v), -1, 0, Len(v)} :
       \E max_bytes_per_word \in {1, 100} :
         inputs = [ragged_begins |-> Firsts(rows), ragged_ends |-> Seconds(rows),
                   begins |-> Firsts(words), ends |-> Seconds(words), chars |-> c,
                   vocab_begins |-> StringTriple(v).begins,
                   vocab_ends |-> StringTriple(v).ends,
                   vocab_chars |-> StringTriple(v).chars,
                   unk_token_id |-> unk_token_id,
                   suffix_indicator |-> <<35>>,
                   max_bytes_per_word |-> max_bytes_per_word]
    /\ outputs = EmptyRagged

\* WordpieceTokenizer::evaluate.  The tokenizer cannot be built when the
\* unknown token is no key of the vocabulary (the call throws or the process
\* ends); the loop stops on its assertion when an id would be written at or
\* past len(chars).
WordpieceTokenizerEvaluate ==
    /\ op = "WordpieceTokenizer"
    /\ pc = "start"
    /\ LET r == WordpieceLoop(inputs, EmptyRagged, 1)
       IN  IF WordpieceVocabId(inputs, WordpieceUnkToken(inputs)) < 0
           THEN pc' \in {"failed", "crashed"} /\ outputs' = outputs
           ELSE IF Len(r.elems) > Len(inputs.chars)
           THEN pc' = "failed" /\ outputs' = outputs
           ELSE pc' = "done" /\ outputs' = r
    /\ UNCHANGED <<op, inputs>>

SpecWordpiece == InitWordpiece /\ [][WordpieceTokenizerEvaluate]_vars

\* C5: the output has as many rows as the input; output row j,
\* [out_begins[j], out_ends[j]), holds the ids of word rag_begins[j], then of
\* the next word, ..., up to word rag_ends[j]-1, and a row without words
\* gives an empty output row.
C5_WordpieceRowsParallelInput ==
    (op = "WordpieceTokenizer" /\ pc = "done") =>
        /\ Len(outputs.begins) = Len(inputs.ragged_begins)
        /\ Len(outputs.ends) = Len(inputs.ragged_begins)
        /\ \A j \in 1..Len(inputs.ragged_begins) :
             /\ 0 <= outputs.begins[j]
             /\ outputs.begins[j] <= outputs.ends[j]
             /\ outputs.ends[j] <= Len(outputs.elems)
             /\ Slice(outputs.elems, outputs.begins[j], outputs.ends[j])
                  = Flatten([i \in 1..(inputs.ragged_ends[j] - inputs.ragged_begins[j]) |->
                               WordpieceWordIds(inputs, inputs.ragged_begins[j] + i - 1)])
             /\ inputs.ragged_begins[j] = inputs.ragged_ends[j]
                  => outputs.begins[j] = outputs.ends[j]

\* a finished call with a row of two words that both give ids, and a row
\* without words
C5_Witness ==
    /\ op = "WordpieceTokenizer"
    /\ pc = "done"
    /\ \E j \in 1..Len(inputs.ragged_begins) :
         /\ inputs.ragged_ends[j] - inputs.ragged_begins[j] = 2
         /\ WordpieceWordIds(inputs, inputs.ragged_begins[j]) # <<>>
         /\ WordpieceWordIds(inputs, inputs.ragged_begins[j] + 1) # <<>>
         /\ outputs.ends[j] - outputs.begins[j] >= 2
    /\ \E j \in 1..Len(inputs.ragged_begins) :
         inputs.ragged_begins[j] = inputs.ragged_ends[j]

\* the ways to cut a word of length len into pieces: the ends of the pieces
C6_Cuts(len) ==
    {s \in SeqsUpTo(1..len, len) :
        /\ \A i \in 1..(Len(s) - 1) : s[i] < s[i + 1]
        /\ len > 0 => (s # <<>> /\ s[Len(s)] = len)}

C6_From(s, i) == IF i = 1 THEN 0 ELSE s[i - 1]

C6_InVocab(key) ==
    \E id \in 1..Len(inputs.vocab_begins) :
        Slice(inputs.vocab_chars, inputs.vocab_begins[id], inputs.vocab_ends[id]) = key

C6_RowOf(key) ==
    CHOOSE id \in 0..(Len(inputs.vocab_begins) - 1) :
        Slice(inputs.vocab_chars, inputs.vocab_begins[id + 1], inputs.vocab_ends[id + 1]) = key

\* every piece is in the vocabulary, non-initial pieces under the
\* suffix_indicator prefix, and no longer piece from the same start is
C6_Greedy(str, s) ==
    \A i \in 1..Len(s) :
        /\ C6_InVocab(FastWordPieceKey(inputs, str, C6_From(s, i), s[i]))
        /\ \A e \in (s[i] + 1)..Len(str) :
             ~C6_InVocab(FastWordPieceKey(inputs, str, C6_From(s, i), e))

C6_Unk ==
    IF inputs.unk_token_id < 0 THEN inputs.unk_token_id + Len(inputs.vocab_begins)
    ELSE inputs.unk_token_id

C6_WordIds(str) ==
    IF Len(str) <= inputs.max_bytes_per_word /\ \E s \in C6_Cuts(Len(str)) : C6_Greedy(str, s)
    THEN LET s == CHOOSE s \in C6_Cuts(Len(str)) : C6_Greedy(str, s)
         IN  [i \in 1..Len(s) |->
                C6_RowOf(FastWordPieceKey(inputs, str, C6_From(s, i), s[i]))]
    ELSE <<C6_Unk>>

C6_Word(k) == Slice(inputs.chars, inputs.begins[k], inputs.ends[k])

C11_InSomeRow(k) ==
    \/ inputs.form = "flat"
    \/ \E j \in 1..Len(inputs.ragged_begins) :
         inputs.ragged_begins[j] < k /\ k <= inputs.ragged_ends[j]

\* number of substrings of the words before word k
C11_Before(k) == SumSeq([i \in 1..(k - 1) |-> Len(RegexSplitSpans(inputs, i - 1))])

\* the output substrings of word k, one after the other
C11_Concat(k) ==
    Flatten([j \in 1..Len(RegexSplitSpans(inputs, k - 1)) |->
               Slice(outputs.chars, outputs.begins[C11_Before(k) + j],
                     outputs.ends[C11_Before(k) + j])])

\* C11: for every input word, the word's output substrings joined in output
\* order give back the word's bytes for the behaviours isolate,
\* merge_with_previous and merge_with_next, and the word with every
\* delimiter match deleted for the behaviour remove.
C11_SplitsReconstructWord ==
    (op = "RegexSplit" /\ pc = "done") =>
        \A k \in 1..Len(inputs.begins) :
            C11_InSomeRow(k) =>
                /\ C11_Before(k) + Len(RegexSplitSpans(inputs, k - 1)) <= Len(outputs.begins)
                /\ \/ inputs.behaviour = "remove" /\ inputs.invert
                   \/ C11_Concat(k) =
                        IF inputs.behaviour = "remove"
                        THEN ReplaceAll(Slice(inputs.chars, inputs.begins[k], inputs.ends[k]),
                                        inputs.split_pattern, <<>>, 0)
                        ELSE Slice(inputs.chars, inputs.begins[k], inputs.ends[k])

\* ------------------------------------------------------------ BPETokenizer
\* vocabularies (row i is the token of id i) with their merge rules (row i
\* is the rule of rank i, "left right"), over the tokens "a", "b", "ab",
\* "aa", "aab"; every vocabulary holds every byte of WordBytes and every
\* result of a rule
BPEModels ==
    {[vocab  |-> <<<<97>>, <<98>>, <<97, 98>>>>,
      merges |-> <<<<97, 32, 98>>>>],
     [vocab  |-> <<<<97>>, <<98>>, <<97, 98>>, <<97, 97>>, <<97, 97, 98>>>>,
      merges |-> <<<<97, 32, 97>>, <<97, 32, 98>>, <<97, 97, 32, 98>>>>],
     [vocab  |-> <<<<98>>, <<97>>, <<97, 98>>, <<97, 97>>>>,
      merges |-> <<<<97, 32, 98>>, <<97, 32, 97>>>>]}

\* vocab[token] after the loop that fills the map, -1 when no such key
BPEVocabId(in, token) ==
    LET ids == {id \in 0..(Len(in.vocab_begins) - 1) :
                  Slice(in.vocab_chars, in.vocab_begins[id + 1], in.vocab_ends[id + 1]) = token}
    IN  IF ids = {} THEN -1 ELSE CHOOSE m \in ids : \A x \in ids : x <= m

\* merge.find(" "): the 0-based position of the first space, -1 when none
BPEDelimPos(merge) ==
    LET ps == {k \in 0..(Len(merge) - 1) : merge[k + 1] = 32}
    IN  IF ps = {} THEN -1 ELSE CHOOSE m \in ps : \A x \in ps : m <= x

\* the pair of rule id: the text before the first space and the text after it
BPEMergePairSwapped(in, id) ==
    LET merge == Slice(in.merges_chars, in.merges_begins[id + 1], in.merges_ends[id + 1])
        delim_pos == BPEDelimPos(merge)
    IN  IF delim_pos = -1 THEN <<merge, merge>>
        ELSE <<Slice(merge, delim_pos + 1, Len(merge)), Slice(merge, 0, delim_pos)>>

BPEMergePair(in, id) ==
    LET merge == Slice(in.merges_chars, in.merges_begins[id + 1], in.merges_ends[id + 1])
        delim_pos == BPEDelimPos(merge)
    IN  IF delim_pos = -1 THEN <<merge, merge>>
        ELSE <<Slice(merge, 0, delim_pos), Slice(merge, delim_pos + 1, Len(merge))>>

BPEMerges(in) == [id \in 1..Len(in.merges_begins) |-> BPEMergePair(in, id - 1)]

\* rank of the rule for the pair (l, r): its index in merges, 0 when none
BPERank(merges, l, r) ==
    LET rs == {i \in 1..Len(merges) : merges[i] = <<l, r>>}
    IN  IF rs = {} THEN 0 ELSE CHOOSE m \in rs : \A x \in rs : m <= x

\* the leftmost adjacent pair of lowest rank, 0 when no pair has a rule
BPEBest(merges, pieces) ==
    LET c == {i \in 1..(Len(pieces) - 1) : BPERank(merges, pieces[i], pieces[i + 1]) > 0}
    IN  IF c = {} THEN 0
        ELSE CHOOSE i \in c : \A x \in c :
               \/ BPERank(merges, pieces[i], pieces[i + 1])
                    < BPERank(merges, pieces[x], pieces[x + 1])
               \/ /\ BPERank(merges, pieces[i], pieces[i + 1])
                       = BPERank(merges, pieces[x], pieces[x + 1])
                  /\ i <= x

\* pieces with the pair at i replaced by its merged symbol
BPEMergeAt(pieces, i) ==
    [k \in 1..(Len(pieces) - 1) |->
       IF k < i THEN pieces[k]
       ELSE IF k = i THEN pieces[i] \o pieces[i + 1]
       ELSE pieces[k + 1]]

RECURSIVE BPEMergeLoop(_, _)
BPEMergeLoop(merges, pieces) ==
    IF BPEBest(merges, pieces) = 0 THEN pieces
    ELSE BPEMergeLoop(merges, BPEMergeAt(pieces, BPEBest(merges, pieces)))

\* the ids of one final piece: its vocab id, or that of unk_token when the
\* piece is unknown and the unk_token vector is not empty, or nothing
BPEPieceIds(in, piece) ==
    IF BPEVocabId(in, piece) >= 0 THEN <<BPEVocabId(in, piece)>>
    ELSE IF in.unk_token # <<>> /\ BPEVocabId(in, in.unk_token) >= 0
    THEN <<BPEVocabId(in, in.unk_token)>>
    ELSE <<>>

\* BPE(vocab, merges, cache, dropout, unk_token, suffix_indicator,
\* end_suffix, fuse_unk).Tokenize(str): the ids of the final pieces
BPETokenize(in, str) ==
    LET pieces == BPEMergeLoop(BPEMerges(in), [k \in 1..Len(str) |-> <<str[k]>>])
    IN  Flatten([k \in 1..Len(pieces) |-> BPEPieceIds(in, pieces[k])])

BPEWordIds(in, i) == BPETokenize(in, Slice(in.chars, in.begins[i + 1], in.ends[i + 1]))

\* the body of the loop over j (1-based here)
BPERow(in, acc, j) ==
    LET n     == in.ragged_ends[j] - in.ragged_begins[j]
        elems == acc.elems
                 \o Flatten([i \in 1..n |-> BPEWordIds(in, in.ragged_begins[j] + i - 1)])
    IN  [begins |-> Append(acc.begins, Len(acc.elems)),
         ends   |-> Append(acc.ends, Len(elems)),
         elems  |-> elems]

RECURSIVE BPELoop(_, _, _)
BPELoop(in, acc, j) ==
    IF j > Len(in.ragged_begins) THEN acc ELSE BPELoop(in, BPERow(in, acc, j), j + 1)

InitBPE ==
    /\ op = "BPETokenizer"
    /\ pc = "start"
    /\ \E c \in SeqsUpTo(WordBytes, MaxChars + 1) :
       \E w \in 0..MaxWords :
       \E words \in Words(Len(c), w) :
       \E rows \in UNION {Rows(w, b) : b \in 0..MaxRows} :
       \E m \in BPEModels :
         inputs = [ragged_begins |-> Firsts(rows), ragged_ends |-> Seconds(rows),
                   begins |-> Firsts(words), ends |-> Seconds(words), chars |-> c,
                   vocab_begins |-> StringTriple(m.vocab).begins,
                   vocab_ends |-> StringTriple(m.vocab).ends,
                   vocab_chars |-> StringTriple(m.vocab).chars,
                   merges_begins |-> StringTriple(m.merges).begins,
                   merges_ends |-> StringTriple(m.merges).ends,
                   merges_chars |-> StringTriple(m.merges).chars,
                   unk_token |-> <<>>, fuse_unk |-> FALSE, suffix_indicator |-> <<>>,
                   end_suffix |-> <<>>, byte_fallback |-> FALSE]
    /\ outputs = EmptyRagged

\* BPETokenizer::evaluate; the loop stops on its assertion when an id would
\* be written at or past len(chars)
BPETokenizerEvaluate ==
    /\ op = "BPETokenizer"
    /\ pc = "start"
    /\ LET r == BPELoop(inputs, EmptyRagged, 1)
       IN  IF Len(r.elems) > Len(inputs.chars)
           THEN pc' = "failed" /\ outputs' = outputs
           ELSE pc' = "done" /\ outputs' = r
    /\ UNCHANGED <<op, inputs>>

SpecBPE == InitBPE /\ [][BPETokenizerEvaluate]_vars

\* row i (1-based) of the merges input is the rule "l r"
C12_IsRule(i, l, r) ==
    Slice(inputs.merges_chars, inputs.merges_begins[i], inputs.merges_ends[i])
        = l \o <<32>> \o r

\* the rank of the pair (l, r): the first row that is its rule, 0 when none
C12_Rank(l, r) ==
    IF \E i \in 1..Len(inputs.merges_begins) : C12_IsRule(i, l, r)
    THEN CHOOSE i \in 1..Len(inputs.merges_begins) :
           /\ C12_IsRule(i, l, r)
           /\ \A x \in 1..(i - 1) : ~C12_IsRule(x, l, r)
    ELSE 0

\* the positions whose pair has the lowest rank of all adjacent pairs
C12_Lowest(p) ==
    {i \in 1..(Len(p) - 1) :
        /\ C12_Rank(p[i], p[i + 1]) > 0
        /\ \A x \in 1..(Len(p) - 1) :
             C12_Rank(p[x], p[x + 1]) > 0 => C12_Rank(p[i], p[i + 1]) <= C12_Rank(p[x], p[x + 1])}

\* the piece sequences in which merging a lowest-rank pair, again and again,
\* can end
RECURSIVE C12_Finals(_)
C12_Finals(p) ==
    IF C12_Lowest(p) = {} THEN {p}
    ELSE UNION {C12_Finals([k \in 1..(Len(p) - 1) |->
                              IF k < i THEN p[k]
                              ELSE IF k = i THEN p[i] \o p[i + 1] ELSE p[k + 1]]) :
                  i \in C12_Lowest(p)}

C12_RowOf(piece) ==
    CHOOSE id \in 0..(Len(inputs.vocab_begins) - 1) :
        Slice(inputs.vocab_chars, inputs.vocab_begins[id + 1], inputs.vocab_ends[id + 1]) = piece

\* the id sequences the claim allows for the word str
C12_WordIds(str) ==
    {[k \in 1..Len(p) |-> C12_RowOf(p[k])] :
        p \in C12_Finals([k \in 1..Len(str) |-> <<str[k]>>])}

RECURSIVE C12_RowIds(_, _)
C12_RowIds(from, to) ==
    IF from >= to THEN {<<>>}
    ELSE {a \o b : a \in C12_WordIds(C6_Word(from + 1)), b \in C12_RowIds(from + 1, to)}

\* C12: per word, starting from the single bytes, the adjacent pair with the
\* lowest merge rank (the row index of its rule "left right") is merged
\* first, merging repeats until no adjacent pair has a rule, and the ids are
\* the vocab row indices of the resulting pieces.
C12_BPEMergesLowestRankFirst ==
    (op = "BPETokenizer" /\ pc = "done") =>
        \A j \in 1..Len(inputs.ragged_begins) :
            /\ outputs.begins[j] <= outputs.ends[j]
            /\ outputs.ends[j] <= Len(outputs.elems)
            /\ Slice(outputs.elems, outputs.begins[j], outputs.ends[j])
                 \in C12_RowIds(inputs.ragged_begins[j], inputs.ragged_ends[j])

\* a finished call on a word of three bytes in which two different pairs
\* have a rule: the one of lower rank was merged first
C12_Witness ==
    /\ op = "BPETokenizer"
    /\ pc = "done"
    /\ \E j \in 1..Len(inputs.ragged_begins) :
         LET k == inputs.ragged_ends[j]
         IN  /\ inputs.ragged_ends[j] - inputs.ragged_begins[j] = 1
             /\ Len(C6_Word(k)) = 3
             /\ C12_Rank(<<C6_Word(k)[1]>>, <<C6_Word(k)[2]>>) > 0
             /\ C12_Rank(<<C6_Word(k)[2]>>, <<C6_Word(k)[3]>>) > 0
             /\ C12_Rank(<<C6_Word(k)[1]>>, <<C6_Word(k)[2]>>)
                  # C12_Rank(<<C6_Word(k)[2]>>, <<C6_Word(k)[3]>>)
             /\ outputs.ends[j] - outputs.begins[j] \in {1, 2}

\* ------------------------------------------------------------ CombineSegments, row indices

\* C13: after an evaluate of CombineSegments that returns, the segment-id
\* output and the concatenated-elements output have the same begin and the
\* same end for every output row, and their flat buffers have the same number
\* of elements.
C13_SameRowIndices ==
    (op = "CombineSegments" /\ pc = "done") =>
        /\ Len(outputs.id_begins) = Len(outputs.elem_begins)
        /\ Len(outputs.id_ends) = Len(outputs.elem_ends)
        /\ \A i \in 1..Len(outputs.elem_begins) :
              /\ outputs.id_begins[i] = outputs.elem_begins[i]
              /\ outputs.id_ends[i] = outputs.elem_ends[i]
        /\ Len(outputs.ids) = Len(outputs.elems)

\* a call that returned two rows, the second one non-empty and starting after
\* a non-empty first one
C13_Witness ==
    /\ op = "CombineSegments"
    /\ pc = "done"
    /\ Len(outputs.elem_begins) = 2
    /\ outputs.elem_begins[2] > 0
    /\ outputs.elem_ends[2] > outputs.elem_begins[2]
    /\ Len(outputs.ids) = outputs.elem_ends[2]

\* ------------------------------------------------------------ BytesToChars, the whole table
\* every value of a byte
AllBytes == 0..255

\* one string in one row: any byte at one place, bytes of RawBytes elsewhere
InitBytesToCharsTable ==
    /\ op = "BytesToChars"
    /\ pc = "start"
    /\ \E n \in 1..MaxChars :
       \E t \in [1..n -> RawBytes] :
       \E k \in 1..n :
       \E b \in AllBytes :
         inputs = [ragged_begins |-> <<0>>, ragged_ends |-> <<1>>,
                   begins |-> <<0>>, ends |-> <<n>>, chars |-> [t EXCEPT ![k] = b]]
    /\ outputs = EmptyQuintuple

SpecBytesToCharsTable == InitBytesToCharsTable /\ [][BytesToCharsEvaluate]_vars

\* the string the call returned for the only input string
C14_Encoded == Slice(outputs.chars, outputs.begins[1], outputs.ends[1])

\* s starts with p
C14_IsPrefix(p, s) == Len(p) <= Len(s) /\ SubSeq(s, 1, Len(p)) = p

\* every byte string the table encodes as e
RECURSIVE C14_Decodings(_)
C14_Decodings(e) ==
    IF e = <<>> THEN {<<>>}
    ELSE UNION {{<<b>> \o t : t \in C14_Decodings(SubSeq(e, Len(BytesToCharsEntry(b)) + 1, Len(e)))} :
                  b \in {x \in AllBytes : C14_IsPrefix(BytesToCharsEntry(x), e)}}

\* C14: the byte-to-char table is invertible.  For every byte b of a string
\* that BytesToChars has encoded, no other byte value has the entry of b and
\* the entry of b is no proper prefix of another entry and has no other entry
\* as a proper prefix; and the input string is the one and only byte string
\* whose encoding is the returned string.
C14_TableInvertible ==
    (op = "BytesToChars" /\ pc = "done" /\ Len(inputs.ragged_begins) = 1
        /\ inputs.ragged_ends = <<1>> /\ inputs.begins = <<0>>) =>
        /\ \A k \in 1..Len(inputs.chars) :
           \A c \in AllBytes \ {inputs.chars[k]} :
             /\ BytesToCharsEntry(c) # BytesToCharsEntry(inputs.chars[k])
             /\ ~C14_IsPrefix(BytesToCharsEntry(c), BytesToCharsEntry(inputs.chars[k]))
             /\ ~C14_IsPrefix(BytesToCharsEntry(inputs.chars[k]), BytesToCharsEntry(c))
        /\ C14_Decodings(C14_Encoded) = {inputs.chars}

\* a returned string of three bytes for an input of two: one byte with a
\* two-byte entry next to one with a one-byte entry
C14_Witness ==
    /\ op = "BytesToChars"
    /\ pc = "done"
    /\ inputs.begins = <<0>>
    /\ Len(inputs.chars) = 2
    /\ inputs.chars[1] \in 128..255
    /\ Len(C14_Encoded) = 3
    /\ C14_Decodings(C14_Encoded) = {inputs.chars}

\* the UTF-8 encoding of a code point in 128..2047: two bytes
C15_Utf8Pair(cp) == <<192 + (cp \div 64), 128 + (cp % 64)>>

\* the byte values the table gives a character of their own value
C15_KeptBytes == (33..126) \cup (161..172) \cup (174..255)

\* the number of byte values below b that are not kept
C15_Rank(b) == Cardinality({x \in 0..(b - 1) : x \notin C15_KeptBytes})

\* the entry the claim gives byte b
C15_ClaimedEntry(b) ==
    IF b \in C15_KeptBytes THEN <<b>> ELSE C15_Utf8Pair(256 + C15_Rank(b))

\* the entry byte b has: the UTF-8 encoding of the character of value b when
\* b is kept, which is one byte only below 128
C15_Utf8Entry(b) ==
    IF b \in 33..126 THEN <<b>>
    ELSE IF b \in C15_KeptBytes THEN C15_Utf8Pair(b)
    ELSE C15_Utf8Pair(256 + C15_Rank(b))

\* C15 as stated: BytesToChars writes every byte of 33..126, 161..172 and
\* 174..255 as itself, one byte, and every other byte as the two-byte UTF-8
\* sequence that follows 0xC4 0x80 in the order of the byte values.
C15_KeptBytesAreSingle ==
    (op = "BytesToChars" /\ pc = "done" /\ inputs.begins = <<0>>
        /\ inputs.ragged_begins = <<0>> /\ inputs.ragged_ends = <<1>>) =>
        C14_Encoded = Flatten([k \in 1..Len(inputs.chars) |-> C15_ClaimedEntry(inputs.chars[k])])

\* C15, amended: BytesToChars writes every byte of 33..126 as itself, one
\* byte; every byte b of 161..172 and 174..255 as the two-byte UTF-8 encoding
\* of the character of value b (0xC2 or 0xC3 first); and every other byte as
\* the two-byte UTF-8 sequence that follows 0xC4 0x80 in the order of the
\* byte values.
C15_KeptBytesAreUtf8 ==
    (op = "BytesToChars" /\ pc = "done" /\ inputs.begins = <<0>>
        /\ inputs.ragged_begins = <<0>> /\ inputs.ragged_ends = <<1>>) =>
        C14_Encoded = Flatten([k \in 1..Len(inputs.chars) |-> C15_Utf8Entry(inputs.chars[k])])

\* the byte 233 alone, returned as 0xC3 0xA9
C15_Witness ==
    /\ op = "BytesToChars"
    /\ pc = "done"
    /\ inputs.begins = <<0>>
    /\ inputs.chars = <<233>>
    /\ C14_Encoded = <<195, 169>>

\* ------------------------------------------------------------ packed strings, malformed buffers
\* the batch size in the first four bytes of a buffer that has them
C16_BatchSize == ReadInt32(inputs.packed, 0, 0)

\* the buffer is shorter than 4 + 4 * (N + 1) bytes, or has no N at all
C16_Short ==
    \/ Len(inputs.packed) < 4
    \/ C16_BatchSize > (Len(inputs.packed) - 8) \div 4

\* C16: StringTensorUnpack of a buffer of fewer than 4 bytes, or of fewer
\* than 4 + 4 * (N + 1) bytes where N is the batch size in its first four
\* bytes, fails with the format error and writes no output.
C16_ShortBufferIsRejected ==
    (op = "StringTensorUnpack" /\ C16_Short) =>
        /\ pc \in {"start", "failed"}
        /\ outputs = [begins |-> <<>>, ends |-> <<>>, chars |-> <<>>, packed |-> <<>>]

\* the buffer holds its header, N + 1 offsets for a batch size N >= 0, and
\* fewer payload bytes than the last offset tells
C17_PayloadCutShort ==
    /\ Len(inputs.packed) >= 8
    /\ C16_BatchSize >= 0
    /\ C16_BatchSize <= (Len(inputs.packed) - 8) \div 4
    /\ ReadInt32(inputs.packed, 4 + 4 * C16_BatchSize, 0)
         > Len(inputs.packed) - 4 * (C16_BatchSize + 2)

\* C17: a reader of the packed format rejects a buffer whose last offset
\* offsets[N] exceeds total_bytes - 4 * (N + 2): StringTensorUnpack fails on
\* it and reads no payload byte past the end of the buffer.
C17_ReadersCheckLastOffset ==
    (op = "StringTensorUnpack" /\ C17_PayloadCutShort) => pc \in {"start", "failed"}

\* ------------------------------------------------------------ RegexSplit, validation
\* values of the behaviour attribute a node may be built with: the keys of
\* split_modes and other strings
SplitBehaviours ==
    DOMAIN split_modes
    \cup {"removed", "isolated", "merged_with_previous", "merged_with_next", "contiguous"}

\* a node as its constructor leaves it, before validate_and_infer_types
InitRegexSplitNode ==
    /\ op = "RegexSplit"
    /\ pc = "constructed"
    /\ \E c \in SeqsUpTo(SplitBytes, MaxChars) :
       \E behaviour \in SplitBehaviours :
       \E invert \in BOOLEAN :
         inputs = [form |-> "flat",
                   ragged_begins |-> <<>>, ragged_ends |-> <<>>,
                   begins |-> <<0>>, ends |-> <<Len(c)>>, chars |-> c,
                   split_pattern |-> <<44>>, behaviour |-> behaviour, invert |-> invert]
    /\ outputs = EmptyQuintuple

\* RegexSplit::validate_and_infer_types: the behaviour must be a key of
\* split_modes
RegexSplitValidate ==
    /\ op = "RegexSplit"
    /\ pc = "constructed"
    /\ pc' = IF inputs.behaviour \in DOMAIN split_modes THEN "start" ELSE "failed"
    /\ UNCHANGED <<op, inputs, outputs>>

NextRegexSplitNode == RegexSplitValidate \/ RegexSplitEvaluate

SpecRegexSplitNode == InitRegexSplitNode /\ [][NextRegexSplitNode]_vars

\* C18: validation of a RegexSplit node passes when its behaviour is one of
\* removed, isolated, merged_with_previous, merged_with_next, and fails for
\* every other behaviour string.
C18_ValidationAcceptsFourModes ==
    (op = "RegexSplit" /\ pc # "constructed") =>
        (pc = "failed" <=>
            inputs.behaviour \notin {"removed", "isolated", "merged_with_previous",
                                     "merged_with_next"})

\* ------------------------------------------------------------ SentencepieceTokenizer, encoder failure

\* C19: a failure of the encoder on one sentence does not end the call.  On
\* a well-formed packed batch, where nothing but the encoder can fail, the
\* tokenizer always returns: the failing sentence adds no rows and the other
\* sentences are encoded.
C19_EncodeFailureKeepsBatch ==
    (op = "SentencepieceTokenizer" /\ C7_Canonical(inputs.packed)) =>
        pc \in {"start", "done"}

\* ------------------------------------------------------------ WordpieceTokenizer, unknown token index

\* C20: when the index of the unknown token, a negative one counted from the
\* vocabulary size, is outside [0, vocab_size), WordpieceTokenizer fails the
\* call; it does not tokenize.
C20_UnkIndexOutOfRangeFails ==
    (op = "WordpieceTokenizer"
        /\ WordpieceUnkTokenId(inputs) \notin 0..(Len(inputs.vocab_begins) - 1)) =>
        pc \in {"start", "failed"}

\* ------------------------------------------------------------ BPETokenizer, byte fallback
\* a vocabulary without the byte 'b' as a token: "a", "<0x62>", "?"
BPEFallbackVocab == <<<<97>>, <<60, 48, 120, 54, 50, 62>>, <<63>>>>

\* nodes built with either value of byte_fallback, with and without an
\* unk_token, and no merge rule
InitBPEByteFallback ==
    /\ op = "BPETokenizer"
    /\ pc = "start"
    /\ \E c \in SeqsUpTo(WordBytes, MaxChars) :
       \E w \in 0..MaxWords :
       \E words \in Words(Len(c), w) :
       \E rows \in UNION {Rows(w, b) : b \in 0..MaxRows} :
       \E unk_token \in {<<>>, <<63>>} :
       \E byte_fallback \in BOOLEAN :
         inputs = [ragged_begins |-> Firsts(rows), ragged_ends |-> Seconds(rows),
                   begins |-> Firsts(words), ends |-> Seconds(words), chars |-> c,
                   vocab_begins |-> StringTriple(BPEFallbackVocab).begins,
                   vocab_ends |-> StringTriple(BPEFallbackVocab).ends,
                   vocab_chars |-> StringTriple(BPEFallbackVocab).chars,
                   merges_begins |-> <<>>, merges_ends |-> <<>>, merges_chars |-> <<>>,
                   unk_token |-> unk_token, fuse_unk |-> FALSE, suffix_indicator |-> <<>>,
                   end_suffix |-> <<>>, byte_fallback |-> byte_fallback]
    /\ outputs = EmptyRagged

SpecBPEByteFallback == InitBPEByteFallback /\ [][BPETokenizerEvaluate]_vars

\* the character of a hexadecimal digit, upper case
C21_HexDigit(d) == IF d < 10 THEN 48 + d ELSE 55 + d

\* the byte token of byte c: "<0xHH>"
C21_ByteToken(c) == <<60, 48, 120, C21_HexDigit(c \div 16), C21_HexDigit(c % 16), 62>>

\* the ids the claim gives one single-byte character c of a word
C21_CharIds(c) ==
    IF BPEVocabId(inputs, <<c>>) >= 0 THEN <<BPEVocabId(inputs, <<c>>)>>
    ELSE IF inputs.byte_fallback THEN <<BPEVocabId(inputs, C21_ByteToken(c))>>
    ELSE IF inputs.unk_token # <<>> THEN <<BPEVocabId(inputs, inputs.unk_token)>>
    ELSE <<>>

C21_WordIds(k) == Flatten([i \in 1..Len(C6_Word(k)) |-> C21_CharIds(C6_Word(k)[i])])

\* C21: with no merge rule, BPETokenizer gives a character that is in the
\* vocabulary its id; one that is not, the id of its byte token when
\* byte_fallback is true, and the unknown token (if any) when it is false.
C21_ByteFallbackEmitsByteTokens ==
    (op = "BPETokenizer" /\ pc = "done" /\ inputs.merges_begins = <<>>) =>
        \A j \in 1..Len(inputs.ragged_begins) :
            /\ outputs.begins[j] <= outputs.ends[j]
            /\ outputs.ends[j] <= Len(outputs.elems)
            /\ Slice(outputs.elems, outputs.begins[j], outputs.ends[j])
                 = Flatten([i \in 1..(inputs.ragged_ends[j] - inputs.ragged_begins[j]) |->
                              C21_WordIds(inputs.ragged_begins[j] + i)])

\* ------------------------------------------------------------ RegexSplit, chars and offsets

\* C22: RegexSplit returns the input chars as the output chars, same length
\* and same bytes, for the flat and for the ragged input form.
C22_CharsPassThrough ==
    (op = "RegexSplit" /\ pc = "done") => outputs.chars = inputs.chars

\* a returned call of the ragged form on one word that holds a delimiter,
\* with the behaviour that leaves the delimiters out of the substrings
C22_Witness ==
    /\ op = "RegexSplit"
    /\ pc = "done"
    /\ inputs.behaviour = "remove"
    /\ ~inputs.invert
    /\ \E k \in 1..Len(inputs.chars) : inputs.chars[k] = 44
    /\ Len(inputs.begins) = 1
    /\ inputs.form = "ragged"
    /\ Len(inputs.ragged_begins) = 1
    /\ Len(outputs.begins) >= 1
    /\ Len(outputs.begins) <= Len(inputs.chars)
    /\ Len(outputs.chars) = Len(inputs.chars)

\* ------------------------------------------------------------ two concurrent calls of one node
\* the calls of evaluate that run at the same time on one BytesToChars node
Calls == {1, 2}

\* bytes of the strings of the second call
OtherRawBytes == {32}

\* the storage of the variables a call declares in evaluate (new_begins,
\* new_ends, new_chars, char_pointer): automatic, one set per call
LocalsSharedByCalls(t) == 1

LocalsOf(t) == t

\* the input of one call: one string per row, laid out one after the other
CallInputs(bytes) ==
    UNION {{[ragged_begins |-> [i \in 1..b |-> i - 1], ragged_ends |-> [i \in 1..b |-> i],
             begins |-> Firsts(words), ends |-> Seconds(words), chars |-> c] :
               words \in Words(Len(c), b)} :
             <<c, b>> \in SeqsUpTo(bytes, MaxChars) \X (0..MaxRows)}

\* pc holds, per call, where it is (at), its loop variable j and, per set of
\* locals, char_pointer; overlapped tells that some step was taken while the
\* other call was inside its loop
InitBytesToCharsCalls ==
    /\ op = "BytesToChars, two calls"
    /\ \E g \in Garbage :
         pc = [at |-> <<"start", "start">>, j |-> <<0, 0>>, char_pointer |-> <<0, 0>>,
               g |-> g, overlapped |-> FALSE]
    /\ \E a \in CallInputs(RawBytes) : \E b \in CallInputs(OtherRawBytes) :
         inputs = <<a, b>>
    /\ outputs = <<EmptyQuintuple, EmptyQuintuple>>

\* the other call is inside its loop
OtherCallRuns(t) == \E u \in Calls \ {t} : pc.at[u] = "loop"

\* the start of a call up to its loop: the output shapes are set and
\* char_pointer is 0
BytesToCharsCallStart ==
    /\ op = "BytesToChars, two calls"
    /\ \E t \in Calls :
         /\ pc.at[t] = "start"
         /\ outputs' = [outputs EXCEPT ![t] =
                [ragged_begins |-> inputs[t].ragged_begins,
                 ragged_ends   |-> inputs[t].ragged_ends,
                 begins        |-> [i \in 1..Len(inputs[t].begins) |-> pc.g],
                 ends          |-> [i \in 1..Len(inputs[t].ends) |-> pc.g],
                 chars         |-> [k \in 1..(2 * Len(inputs[t].chars)) |-> pc.g]]]
         /\ pc' = [pc EXCEPT
                     !.at[t] = IF Len(inputs[t].ragged_begins) = 0 THEN "done" ELSE "loop",
                     !.char_pointer[LocalsOf(t)] = 0,
                     !.overlapped = @ \/ OtherCallRuns(t)]
    /\ UNCHANGED <<op, inputs>>

\* one turn of the loop over j of a call
BytesToCharsCallRow ==
    /\ op = "BytesToChars, two calls"
    /\ \E t \in Calls :
         /\ pc.at[t] = "loop"
         /\ LET j            == pc.j[t]
                char_pointer == pc.char_pointer[LocalsOf(t)]
                row          == BytesToCharsRowChars(inputs[t], j + 1)
            IN  /\ outputs' = [outputs EXCEPT ![t] =
                       [@ EXCEPT !.begins[j + 1] = char_pointer,
                                 !.ends[j + 1] = char_pointer + Len(row),
                                 !.chars = [k \in 1..Len(@) |->
                                    IF k > char_pointer /\ k <= char_pointer + Len(row)
                                    THEN row[k - char_pointer] ELSE @[k]]]]
                /\ pc' = [pc EXCEPT
                            !.j[t] = j + 1,
                            !.at[t] = IF j + 1 >= Len(inputs[t].ragged_begins)
                                      THEN "done" ELSE "loop",
                            !.char_pointer[LocalsOf(t)] = char_pointer + Len(row),
                            !.overlapped = @ \/ OtherCallRuns(t)]
    /\ UNCHANGED <<op, inputs>>

NextBytesToCharsCalls == BytesToCharsCallStart \/ BytesToCharsCallRow

SpecBytesToCharsCalls == InitBytesToCharsCalls /\ [][NextBytesToCharsCalls]_vars

\* what a call gives when it runs alone
C23_Alone(t) ==
    LET r == BytesToChars(inputs[t], pc.g)
    IN  [ragged_begins |-> r.ragged_begins, ragged_ends |-> r.ragged_ends,
         begins |-> r.begins, ends |-> r.ends, chars |-> r.chars]

C24_Inside(b, e, word) ==
    /\ inputs.begins[word + 1] <= b
    /\ b <= e
    /\ e <= inputs.ends[word + 1]
    /\ inputs.ends[word + 1] <= Len(inputs.chars)

\* C24: every substring RegexSplit gives for a word lies inside the word:
\* begins[w] <= out_begin <= out_end <= ends[w] <= len(chars), for the
\* splits of every word and so for every pair of the output.
C24_SubstringsInsideWord ==
    (op = "RegexSplit" /\ pc = "done") =>
        /\ \A word \in 0..(Len(inputs.begins) - 1) :
             \A j \in 1..Len(RegexSplitSpans(inputs, word)) :
                C24_Inside(RegexSplitSpans(inputs, word)[j][1],
                           RegexSplitSpans(inputs, word)[j][2], word)
        /\ \A k \in 1..Len(outputs.begins) :
             \E word \in 0..(Len(inputs.begins) - 1) :
                C24_Inside(outputs.begins[k], outputs.ends[k], word)

\* a word that does not start at 0 was split while the output had room for
\* every substring
C24_Witness ==
    /\ op = "RegexSplit" /\ pc = "done"
    /\ Len(inputs.begins) = 2 /\ inputs.begins[2] > 0
    /\ inputs.ends[2] > inputs.begins[2]
    /\ Len(inputs.ragged_begins) = IF inputs.form = "flat" THEN 0 ELSE 2
    /\ Len(outputs.begins) = 2 /\ Len(outputs.begins) <= Len(inputs.chars)
    /\ outputs.begins[2] = inputs.begins[2]
    /\ outputs.ends[2] = inputs.ends[2]

\* ------------------------------------------------------------ BytesToChars, strings sharing chars
\* ragged strings whose words are any ranges of chars, so that two words may
\* cover the same bytes; the words are all in one row or one per row
InitBytesToCharsShared ==
    /\ op = "BytesToChars"
    /\ pc = "start"
    /\ \E c \in SeqsUpTo(RawBytes, MaxChars) :
       \E w \in 0..MaxWords :
       \E words \in [1..w -> Ranges(Len(c))] :
       \E rows \in {<<<<0, w>>>>, [i \in 1..w |-> <<i - 1, i>>]} :
         inputs = [ragged_begins |-> Firsts(rows), ragged_ends |-> Seconds(rows),
                   begins |-> Firsts(words), ends |-> Seconds(words), chars |-> c]
    /\ outputs = EmptyQuintuple

SpecBytesToCharsShared == InitBytesToCharsShared /\ [][BytesToCharsEvaluate]_vars

\* char_pointer after the loop over the rows of the input
C25_CharPointer ==
    Len(BytesToCharsLoop(inputs, [begins  |-> [i \in 1..Len(inputs.begins) |-> 0],
                                  ends    |-> [i \in 1..Len(inputs.ends) |-> 0],
                                  written |-> <<>>, oob |-> FALSE], 1).written)

\* C25: BytesToChars never writes more than 2 * len(input chars) bytes: for
\* every input that keeps 0 <= begins <= ends <= len(chars) and
\* 0 <= rag_begins <= rag_ends <= M, strings that share bytes of chars
\* included, the write position stays within 2 * len(chars) and every end
\* written to the output is within the output chars.
C25_WritesStayInOutputChars ==
    (op = "BytesToChars" /\ pc \in {"done", "crashed"}) =>
        /\ C25_CharPointer <= 2 * Len(inputs.chars)
        /\ pc = "done" =>
              \A j \in 1..Min(Len(inputs.ragged_begins), Len(outputs.ends)) :
                 outputs.ends[j] <= Len(outputs.chars)

\* ------------------------------------------------------------ WordpieceTokenizer, negative unk_token_id
\* the greedy split does not cover word k (1-based) of the input, or the
\* word is longer than max_bytes_per_word
C26_NotCovered(k) ==
    \/ Len(C6_Word(k)) > inputs.max_bytes_per_word
    \/ ~\E s \in C6_Cuts(Len(C6_Word(k))) : C6_Greedy(C6_Word(k), s)

\* every word of row j (1-based) is one the vocabulary cannot cover
C26_RowNotCovered(j) ==
    \A i \in (inputs.ragged_begins[j] + 1)..inputs.ragged_ends[j] : C26_NotCovered(i)

InitRegexSplitShared ==
    /\ op = "RegexSplit"
    /\ pc = "start"
    /\ \E c \in SeqsUpTo(SplitBytes, MaxChars) :
       \E w \in 0..MaxWords :
       \E words \in [1..w -> Ranges(Len(c))] :
       \E behaviour \in DOMAIN split_modes :
         inputs = [form |-> "flat",
                   ragged_begins |-> <<>>, ragged_ends |-> <<>>,
                   begins |-> Firsts(words), ends |-> Seconds(words), chars |-> c,
                   split_pattern |-> <<44>>, behaviour |-> behaviour, invert |-> FALSE]
    /\ outputs = EmptyQuintuple

SpecRegexSplitShared == InitRegexSplitShared /\ [][RegexSplitEvaluate]_vars

\* ragged_offset after the loops: the number of pairs written to new_begins
\* and new_ends
C27_RaggedOffset == Len(RegexSplit(inputs, 0, <<0, 0>>).begins)

\* C27: RegexSplit never writes more substrings than the len(chars) entries
\* it shapes the output begins and ends to, for every input that keeps
\* 0 <= begins <= ends <= len(chars), empty strings and strings made of
\* delimiters included.
C27_SubstringsFitCapacity ==
    (op = "RegexSplit" /\ pc \in {"done", "crashed"}) =>
        C27_RaggedOffset <= Len(inputs.chars)

\* ------------------------------------------------------------ tokenizers, rows sharing words
\* b rows over w words, each any range of the words, so that two rows may
\* hold the same word
SharedRows(w, b) == [1..b -> Ranges(w)]

InitWordpieceSharedRows ==
    /\ op = "WordpieceTokenizer"
    /\ pc = "start"
    /\ \E c \in SeqsUpTo(WordBytes, MaxChars) :
       \E w \in 0..MaxWords :
       \E words \in Words(Len(c), w) :
       \E rows \in UNION {SharedRows(w, b) : b \in 0..MaxRows} :
       \E v \in Vocabs :
         inputs = [ragged_begins |-> Firsts(rows), ragged_ends |-> Seconds(rows),
                   begins |-> Firsts(words), ends |-> Seconds(words), chars |-> c,
                   vocab_begins |-> StringTriple(v).begins,
                   vocab_ends |-> StringTriple(v).ends,
                   vocab_chars |-> StringTriple(v).chars,
                   unk_token_id |-> -1,
                   suffix_indicator |-> <<35>>,
                   max_bytes_per_word |-> 100]
    /\ outputs = EmptyRagged

InitBPESharedRows ==
    /\ op = "BPETokenizer"
    /\ pc = "start"
    /\ \E c \in SeqsUpTo(WordBytes, MaxChars) :
       \E w \in 0..MaxWords :
       \E words \in Words(Len(c), w) :
       \E rows \in UNION {SharedRows(w, b) : b \in 0..MaxRows} :
       \E m \in BPEModels :
         inputs = [ragged_begins |-> Firsts(rows), ragged_ends |-> Seconds(rows),
                   begins |-> Firsts(words), ends |-> Seconds(words), chars |-> c,
                   vocab_begins |-> StringTriple(m.vocab).begins,
                   vocab_ends |-> StringTriple(m.vocab).ends,
                   vocab_chars |-> StringTriple(m.vocab).chars,
                   merges_begins |-> StringTriple(m.merges).begins,
                   merges_ends |-> StringTriple(m.merges).ends,
                   merges_chars |-> StringTriple(m.merges).chars,
                   unk_token |-> <<>>, fuse_unk |-> FALSE, suffix_indicator |-> <<>>,
                   end_suffix |-> <<>>, byte_fallback |-> FALSE]
    /\ outputs = EmptyRagged

InitTokenizersSharedRows == InitWordpieceSharedRows \/ InitBPESharedRows

NextTokenizersSharedRows == WordpieceTokenizerEvaluate \/ BPETokenizerEvaluate

SpecTokenizersSharedRows == InitTokenizersSharedRows /\ [][NextTokenizersSharedRows]_vars

\* the number of ids the loops of the call give
C28_Ids ==
    IF op = "WordpieceTokenizer" THEN Len(WordpieceLoop(inputs, EmptyRagged, 1).elems)
    ELSE Len(BPELoop(inputs, EmptyRagged, 1).elems)

\* C28: WordpieceTokenizer and BPETokenizer end without a failure of an
\* internal check on every input that keeps the ragged-string invariants:
\* the ids never outnumber len(input chars), also when rows hold the same
\* words or a word is empty.
C28_TokenizersCompleteWithinCapacity ==
    (op \in {"WordpieceTokenizer", "BPETokenizer"} /\ pc # "start") =>
        /\ C28_Ids <= Len(inputs.chars)
        /\ pc = "done"

\* ------------------------------------------------------------ CombineSegments, the size estimate
\* out_offset after the copy loop
C29_OutOffset ==
    Len(CombineSegmentsOuter(inputs, 1,
            CombineSegmentsMaxNelems(inputs, Len(inputs.ragged)),
            CombineSegmentsEmpty).elems)

\* C29: in CombineSegments the number of elements copied, out_offset, is at
\* most the flat_out_size the outputs were shaped to, for every set of
\* ragged inputs with 0 <= begins <= ends <= len(elems), rows that overlap
\* included, so that the check after the loop never fails.
C29_OutOffsetWithinFlatOutSize ==
    (op = "CombineSegments" /\ pc # "start") =>
        \/ CombineSegmentsMaxNelems(inputs, Len(inputs.ragged))
              # CombineSegmentsPsSize(inputs, Len(inputs.ragged))
        \/ /\ C29_OutOffset
                <= CombineSegmentsFlatOutSize(inputs, Len(inputs.ragged),
                       CombineSegmentsMaxNelems(inputs, Len(inputs.ragged)))
           /\ pc = "done"

\* ------------------------------------------------------------ packed strings, negative batch size
\* C30: StringTensorUnpack rejects every packed buffer whose batch size N is
\* negative: the length check of parse_packed_strings does not pass, no
\* offset is read and no output is produced.
C30_NegativeBatchSizeIsRejected ==
    (/\ op = "StringTensorUnpack" /\ pc # "start"
     /\ Len(inputs.packed) >= 4 /\ C16_BatchSize < 0) =>
        /\ ~parse_packed_strings(inputs.packed, 0).ok
        /\ pc = "failed"
        /\ outputs = [begins |-> <<>>, ends |-> <<>>, chars |-> <<>>, packed |-> <<>>]

====
